---- MODULE Spec2Model ----
(***************************************************************************)
(* PyBuses (src/pybuses/core.py): the provider registry and the resolver   *)
(* operations find_stop, save_stop, delete_stop and get_buses, which walk  *)
(* an ordered list of external provider callables and fall back on         *)
(* "unavailable" exceptions.                                               *)
(*                                                                         *)
(* Providers are external code: what a provider does when it is invoked    *)
(* (return a value, raise some exception) is an input, drawn with \E by    *)
(* the action that models the call, one outcome per list position.  The    *)
(* variable `call` records the last resolver call: its arguments, the      *)
(* provider outcomes it was run against, the provider invocations it made  *)
(* (in order) and how it ended.                                            *)
(***************************************************************************)
EXTENDS Integers, Sequences, FiniteSets, TLC

VARIABLES
    stop_getters,           \* self.stop_getters: list of callables
    stop_setters,           \* self.stop_setters
    stop_deleters,          \* self.stop_deleters
    bus_getters,            \* self.bus_getters
    use_all_stop_setters,   \* self.use_all_stop_setters
    use_all_stop_deleters,  \* self.use_all_stop_deleters
    online_attr,            \* the "online" attribute stored in each function object's __dict__
    registered,             \* history: the (f, online) arguments of the add_stop_getter calls, in order
    call,                   \* the last resolver call and its outcome
    scan,                   \* the find_all_stops call: its arguments, the getters it captured, how far it is
    counter,                \* the Counter object of a threaded scan: value and limit
    lock,                   \* Counter.lock: 0 when free, else the worker that holds it
    wk,                     \* per thread of the scan: position, the ID being probed, the getter index
    tried,                  \* history: per ID, the positions of the online getters invoked for it, in order
    saved,                  \* history: per ID, the arguments of the save_stop calls made for it, in order
    claims                  \* history: the IDs handed out for probing, with the thread that got each, in order

registry == <<stop_getters, stop_setters, stop_deleters, bus_getters,
              use_all_stop_setters, use_all_stop_deleters, online_attr, registered>>
scanner == <<scan, counter, lock, wk, tried, saved, claims>>
vars == <<stop_getters, stop_setters, stop_deleters, bus_getters,
          use_all_stop_setters, use_all_stop_deleters, online_attr, registered, call,
          scan, counter, lock, wk, tried, saved, claims>>

---------------------------------------------------------------------------
(* Bounds of the model *)

MaxStopGetters == 3
MaxStopSetters == 3
MaxStopDeleters == 3
MaxBusGetters == 2
MaxBuses == 3
MaxEnd == 3
MaxThreads == 2

StopIds == {1, 2}

None == "None"

---------------------------------------------------------------------------
(* Exceptions (src/pybuses/exceptions.py) and Python's except matching *)

\* The direct base classes of each exception class.
Bases(c) ==
    CASE c = "PyBusesException" -> {"Exception"}
      [] c = "PyBusesBuildError" -> {"PyBusesException"}
      [] c = "GetterException" -> {"PyBusesException", "IOError"}
      [] c = "SetterException" -> {"PyBusesException", "IOError"}
      [] c = "DeleterException" -> {"PyBusesException", "IOError"}
      [] c = "MissingGetters" -> {"PyBusesBuildError", "GetterException"}
      [] c = "MissingSetters" -> {"PyBusesBuildError", "SetterException"}
      [] c = "ResourceUnavailable" -> {"PyBusesException", "IOError"}
      [] c = "GetterResourceUnavailable" -> {"GetterException", "ResourceUnavailable"}
      [] c = "SetterResourceUnavailable" -> {"SetterException", "ResourceUnavailable"}
      [] c = "DeleterResourceUnavailable" -> {"DeleterException", "ResourceUnavailable"}
      [] c = "StopException" -> {"PyBusesException"}
      [] c = "StopNotFound" -> {"StopException", "GetterException"}
      [] c = "StopNotExist" -> {"StopException", "GetterException"}
      [] c = "StopGetterUnavailable" -> {"GetterResourceUnavailable", "StopException"}
      [] c = "StopSetterUnavailable" -> {"SetterResourceUnavailable", "StopException"}
      [] c = "StopDeleterUnavailable" -> {"DeleterResourceUnavailable", "StopException"}
      [] c = "BusException" -> {"PyBusesException"}
      [] c = "BusGetterUnavailable" -> {"ResourceUnavailable", "BusException"}
      [] c = "PyMongoError" -> {"Exception"}
      [] c = "MongoDBUnavailable" -> {"ResourceUnavailable", "PyMongoError"}
      [] c = "IOError" -> {"Exception"}
      [] c = "NameError" -> {"Exception"}
      [] c = "TypeError" -> {"Exception"}
      [] c = "AttributeError" -> {"Exception"}
      [] c = "IndexError" -> {"Exception"}
      [] OTHER -> {}

RECURSIVE IsSubclass(_, _)
IsSubclass(c, d) == c = d \/ \E b \in Bases(c) : IsSubclass(b, d)

\* "except handler:" catches a raised exception of class exc.
Catches(handler, exc) == IsSubclass(exc, handler)

\* The names core.py can resolve at run time: what "from .exceptions import *" binds.
\* core.py names MissingDeleters, which no module defines.
DefinedInExceptions ==
    {"PyBusesException", "PyBusesBuildError", "GetterException", "SetterException",
     "DeleterException", "MissingGetters", "MissingSetters", "ResourceUnavailable",
     "GetterResourceUnavailable", "SetterResourceUnavailable", "DeleterResourceUnavailable",
     "StopException", "StopNotFound", "StopNotExist", "StopGetterUnavailable",
     "StopSetterUnavailable", "StopDeleterUnavailable", "BusException",
     "BusGetterUnavailable", "PyMongoError", "MongoDBUnavailable"}

\* "raise Name(...)": evaluating an unbound global name raises NameError instead.
RaiseNamed(name) == IF name \in DefinedInExceptions THEN name ELSE "NameError"

---------------------------------------------------------------------------
(* Outcomes of calls *)

Returned(v) == [kind |-> "returned", exc |-> "none", value |-> v]
Raised(e) == [kind |-> "raised", exc |-> e, value |-> None]

\* What a provider does when invoked.
Returns == [kind |-> "returns", exc |-> "none"]
Raises(e) == [kind |-> "raises", exc |-> e]

NoCall == [op |-> "none", args |-> <<>>, chain |-> <<>>, beh |-> <<>>,
           log |-> <<>>, result |-> [kind |-> "none", exc |-> "none", value |-> None]]

Invocation(role, f, pos, arg) == [role |-> role, f |-> f, pos |-> pos, arg |-> arg]

\* All sequences over S of length n, and of length at most n.
SeqsOfLen(S, n) == [1..n -> S]
SeqsUpTo(S, n) == UNION {SeqsOfLen(S, k) : k \in 0..n}

---------------------------------------------------------------------------
(* Provider registry *)

\* The callables of src/misctests.py, a plain function and a bound method,
\* and a second plain function.
Callables == {"getter_vitrasa", "getter_mirror", "db_find_stop"}
IsBoundMethod(f) == f = "db_find_stop"

\* f.online = online: a function object takes the attribute; a bound method
\* raises AttributeError, which add_stop_getter swallows.
SetOnline(f, online) ==
    IF IsBoundMethod(f) THEN online_attr
    ELSE [online_attr EXCEPT ![f] = IF online THEN "True" ELSE "False"]

add_stop_getter(f, online) ==
    /\ call.op = "none"
    /\ Len(stop_getters) < MaxStopGetters
    /\ online_attr' = SetOnline(f, online)
    /\ stop_getters' = Append(stop_getters, f)
    /\ registered' = Append(registered, [f |-> f, online |-> online])
    /\ UNCHANGED <<stop_setters, stop_deleters, bus_getters,
                   use_all_stop_setters, use_all_stop_deleters, call, scanner>>

\* "online" in g.__dict__.keys() and g.online is True
IsOnline(g) == online_attr[g] = "True"

\* Mutant: the selection is taken from the setter list.
GetStopGettersFromSetters(online) == stop_setters

get_stop_getters(online) ==
    IF online THEN SelectSeq(stop_getters, IsOnline) ELSE stop_getters

---------------------------------------------------------------------------
(* find_stop *)

\* A Stop as returned by the getter at position pos of the selected list.
StopOf(pos, stopid) == [stopid |-> stopid, name |-> pos]

StopGetterOutcomes ==
    {Returns, Raises("StopGetterUnavailable"), Raises("StopNotFound"),
     Raises("StopNotExist"), Raises("TypeError")}

\* Mutants of the except clause: a handler for another class.
FindStopSkipsSetterClass(exc) == Catches("StopSetterUnavailable", exc)
FindStopSkipsGetterException(exc) == Catches("GetterException", exc)

\* except StopGetterUnavailable: continue
FindStopSkips(exc) == Catches("StopGetterUnavailable", exc)

\* for getter in getters: try: return getter(stopid) ...; then the final raise.
RECURSIVE FindStopLoop(_, _, _, _, _)
FindStopLoop(getters, beh, stopid, i, log) ==
    IF i > Len(getters)
    THEN [log |-> log, result |-> Raised(RaiseNamed("StopGetterUnavailable"))]
    ELSE LET log2 == Append(log, Invocation("StopGetter", getters[i], i, stopid))
         IN IF beh[i].kind = "returns"
            THEN [log |-> log2, result |-> Returned(StopOf(i, stopid))]
            ELSE IF FindStopSkips(beh[i].exc)
                 THEN FindStopLoop(getters, beh, stopid, i + 1, log2)
                 ELSE [log |-> log2, result |-> Raised(beh[i].exc)]

\* Mutant: no check for an empty getter list.
FindStopRunUnchecked(getters, beh, stopid) == FindStopLoop(getters, beh, stopid, 1, <<>>)

FindStopRun(getters, beh, stopid) ==
    IF Len(getters) = 0
    THEN [log |-> <<>>, result |-> Raised(RaiseNamed("MissingGetters"))]
    ELSE FindStopLoop(getters, beh, stopid, 1, <<>>)

find_stop(stopid, online) ==
    /\ call.op = "none"
    /\ LET getters == get_stop_getters(online)
       IN \E beh \in SeqsOfLen(StopGetterOutcomes, Len(getters)) :
            LET r == FindStopRun(getters, beh, stopid)
            IN call' = [op |-> "find_stop",
                        args |-> [stopid |-> stopid, online |-> online],
                        chain |-> getters, beh |-> beh,
                        log |-> r.log, result |-> r.result]
    /\ UNCHANGED <<registry, scanner>>

---------------------------------------------------------------------------
(* save_stop *)

StopSetterCallables == {"db_save_stop", "cache_save_stop"}

\* Mutant: the new setter is put in front.
AddStopSetterInFront(f) ==
    /\ call.op = "none"
    /\ Len(stop_setters) < MaxStopSetters
    /\ stop_setters' = <<f>> \o stop_setters
    /\ UNCHANGED <<stop_getters, stop_deleters, bus_getters, use_all_stop_setters,
                   use_all_stop_deleters, online_attr, registered, call, scanner>>

add_stop_setter(f) ==
    /\ call.op = "none"
    /\ Len(stop_setters) < MaxStopSetters
    /\ stop_setters' = Append(stop_setters, f)
    /\ UNCHANGED <<stop_getters, stop_deleters, bus_getters, use_all_stop_setters,
                   use_all_stop_deleters, online_attr, registered, call, scanner>>

get_stop_setters == stop_setters

StopSetterOutcomes ==
    {Returns, Raises("StopSetterUnavailable"), Raises("TypeError")}

\* The optional use_all_stop_setters argument: "None" (not given), "True" or "False".
OptionalBool == {"None", "True", "False"}

\* Mutant: the argument is ignored in favour of the instance's default.
SaveStopUseAllDefault(arg) == use_all_stop_setters

\* if use_all_stop_setters is None: use_all_stop_setters = self.use_all_stop_setters
SaveStopUseAll(arg) == IF arg = "None" THEN use_all_stop_setters ELSE arg = "True"

\* except StopSetterUnavailable: continue
SaveStopSkips(exc) == Catches("StopSetterUnavailable", exc)

\* Mutant: the loop never breaks after a success.
SaveStopNeverBreaks(use_all) == FALSE

\* else: success = True; if not use_all_stop_setters: break
SaveStopBreaks(use_all) == ~use_all

\* Mutant: the final check is inverted.
SaveStopEndInverted(success) ==
    IF success THEN Raised(RaiseNamed("StopSetterUnavailable")) ELSE Returned(None)

\* if not success: raise StopSetterUnavailable(...)
SaveStopEnd(success) ==
    IF ~success THEN Raised(RaiseNamed("StopSetterUnavailable")) ELSE Returned(None)

\* for setter in setters: try: setter(stop, update=update) ...
RECURSIVE SaveStopLoop(_, _, _, _, _, _, _, _)
SaveStopLoop(setters, beh, stop, update, use_all, i, log, success) ==
    IF i > Len(setters)
    THEN [log |-> log, result |-> SaveStopEnd(success)]
    ELSE LET log2 == Append(log, Invocation("StopSetter", setters[i], i,
                                            [stop |-> stop, update |-> update]))
         IN IF beh[i].kind = "returns"
            THEN IF SaveStopBreaks(use_all)
                 THEN [log |-> log2, result |-> SaveStopEnd(TRUE)]
                 ELSE SaveStopLoop(setters, beh, stop, update, use_all, i + 1, log2, TRUE)
            ELSE IF SaveStopSkips(beh[i].exc)
                 THEN SaveStopLoop(setters, beh, stop, update, use_all, i + 1, log2, success)
                 ELSE [log |-> log2, result |-> Raised(beh[i].exc)]

SaveStopRun(setters, beh, stop, update, use_all_arg) ==
    IF Len(setters) = 0
    THEN [log |-> <<>>, result |-> Raised(RaiseNamed("MissingSetters"))]
    ELSE SaveStopLoop(setters, beh, stop, update, SaveStopUseAll(use_all_arg), 1, <<>>, FALSE)

save_stop(stop, update, use_all_arg) ==
    /\ call.op = "none"
    /\ LET setters == get_stop_setters
       IN \E beh \in SeqsOfLen(StopSetterOutcomes, Len(setters)) :
            LET r == SaveStopRun(setters, beh, stop, update, use_all_arg)
            IN call' = [op |-> "save_stop",
                        args |-> [stop |-> stop, update |-> update,
                                  use_all_stop_setters |-> use_all_arg],
                        chain |-> setters, beh |-> beh,
                        log |-> r.log, result |-> r.result]
    /\ UNCHANGED <<registry, scanner>>

---------------------------------------------------------------------------
(* delete_stop *)

StopDeleterCallables == {"db_delete_stop", "cache_delete_stop"}

get_stop_deleters == stop_deleters

StopDeleterOutcomes ==
    {Returns, Raises("StopDeleterUnavailable"), Raises("StopSetterUnavailable")}

\* except StopDeleterUnavailable: continue
DeleteStopSkips(exc) == Catches("StopDeleterUnavailable", exc)

\* else: success = True; if not self.use_all_stop_deleters: break
DeleteStopBreaks == ~use_all_stop_deleters

\* if not success: raise StopDeleterUnavailable(...)
DeleteStopEnd(success) ==
    IF ~success THEN Raised(RaiseNamed("StopDeleterUnavailable")) ELSE Returned(None)

\* for deleter in deleters: try: deleter(stopid) ...
RECURSIVE DeleteStopLoop(_, _, _, _, _, _)
DeleteStopLoop(deleters, beh, stopid, i, log, success) ==
    IF i > Len(deleters)
    THEN [log |-> log, result |-> DeleteStopEnd(success)]
    ELSE LET log2 == Append(log, Invocation("StopDeleter", deleters[i], i, stopid))
         IN IF beh[i].kind = "returns"
            THEN IF DeleteStopBreaks
                 THEN [log |-> log2, result |-> DeleteStopEnd(TRUE)]
                 ELSE DeleteStopLoop(deleters, beh, stopid, i + 1, log2, TRUE)
            ELSE IF DeleteStopSkips(beh[i].exc)
                 THEN DeleteStopLoop(deleters, beh, stopid, i + 1, log2, success)
                 ELSE [log |-> log2, result |-> Raised(beh[i].exc)]

\* if not deleters: raise MissingDeleters(...)
DeleteStopRun(deleters, beh, stopid) ==
    IF Len(deleters) = 0
    THEN [log |-> <<>>, result |-> Raised(RaiseNamed("MissingDeleters"))]
    ELSE DeleteStopLoop(deleters, beh, stopid, 1, <<>>, FALSE)

delete_stop(stopid) ==
    /\ call.op = "none"
    /\ LET deleters == get_stop_deleters
       IN \E beh \in SeqsOfLen(StopDeleterOutcomes, Len(deleters)) :
            LET r == DeleteStopRun(deleters, beh, stopid)
            IN call' = [op |-> "delete_stop",
                        args |-> [stopid |-> stopid],
                        chain |-> deleters, beh |-> beh,
                        log |-> r.log, result |-> r.result]
    /\ UNCHANGED <<registry, scanner>>

\* The methods the PyBuses class defines.  There is no add_stop_deleter: Stop
\* Deleters are taken from the constructor only.
PyBusesMethods ==
    {"__init__", "find_stop", "save_stop", "delete_stop", "find_all_stops", "get_buses",
     "save_buses", "delete_buses", "add_stop_getter", "add_stop_setter", "add_bus_getter", "add_bus_setter",
     "add_bus_deleter", "get_stop_getters", "get_stop_setters", "get_stop_deleters",
     "get_bus_getters", "get_bus_setters", "get_bus_deleters"}

\* pybuses.add_stop_deleter(f): looking up an attribute the object does not
\* have raises AttributeError before anything is called.
add_stop_deleter(f) ==
    /\ call.op = "none"
    /\ IF "add_stop_deleter" \in PyBusesMethods
       THEN /\ Len(stop_deleters) < MaxStopDeleters
            /\ stop_deleters' = Append(stop_deleters, f)
            /\ call' = [NoCall EXCEPT !.op = "add_stop_deleter", !.args = [f |-> f],
                                      !.result = Returned(None)]
       ELSE /\ stop_deleters' = stop_deleters
            /\ call' = [NoCall EXCEPT !.op = "add_stop_deleter", !.args = [f |-> f],
                                      !.result = Raised("AttributeError")]
    /\ UNCHANGED <<stop_getters, stop_setters, bus_getters, use_all_stop_setters,
                   use_all_stop_deleters, online_attr, registered, scanner>>

---------------------------------------------------------------------------
(* get_buses *)

\* BusSortMethods = _bus_sort_methods_namedtuple(0, 1, 2, 3)
BusSortMethods_NONE == 0
BusSortMethods_TIME == 1
BusSortMethods_LINE == 2
BusSortMethods_ROUTE == 3

BusGetterCallables == {"bus_api", "bus_cache"}

add_bus_getter(f) ==
    /\ call.op = "none"
    /\ Len(bus_getters) < MaxBusGetters
    /\ bus_getters' = Append(bus_getters, f)
    /\ UNCHANGED <<stop_getters, stop_setters, stop_deleters, use_all_stop_setters,
                   use_all_stop_deleters, online_attr, registered, call, scanner>>

get_bus_getters == bus_getters

\* Bus.time is Optional: <<>> stands for None and <<t>> for the number t.
\* Bus.line and Bus.route are strings (str(...).strip()).
NoTime == <<>>
BusFields ==
    {[time |-> <<1>>, line |-> "A", route |-> "Y"],
     [time |-> <<1>>, line |-> "B", route |-> "X"],
     [time |-> <<2>>, line |-> "A", route |-> "X"],
     [time |-> NoTime, line |-> "B", route |-> "Y"]}

\* The Bus objects a getter returns: object i of the list has identity i; src is
\* the position of the getter that built it.
BusObject(i, src, fields) ==
    [id |-> i, src |-> src, time |-> fields.time, line |-> fields.line, route |-> fields.route]

BusesOf(src, supplied) == [i \in 1..Len(supplied) |-> BusObject(i, src, supplied[i])]

\* Code point order of the one-character strings used for line and route.
Ord(c) == CASE c = "A" -> 65 [] c = "B" -> 66 [] c = "X" -> 88 [] c = "Y" -> 89

\* key=lambda x: x.time / x.line / x.route
SortKeyOf(bus, sort_by) ==
    CASE sort_by = BusSortMethods_TIME -> bus.time
      [] sort_by = BusSortMethods_LINE -> bus.line
      [] sort_by = BusSortMethods_ROUTE -> bus.route

\* a < b on two sort keys of the same kind (numbers, or strings).
KeyLess(a, b, sort_by) ==
    IF sort_by = BusSortMethods_TIME THEN a[1] < b[1] ELSE Ord(a) < Ord(b)

\* None < x is a TypeError.
KeyComparable(k, sort_by) == sort_by = BusSortMethods_TIME => k # NoTime

Reverse(s) == [i \in 1..Len(s) |-> s[Len(s) + 1 - i]]

\* The stable insertion of bus x into the sorted list s: after every element
\* that is not greater than x.
RECURSIVE InsertSorted(_, _, _)
InsertSorted(x, s, sort_by) ==
    IF s = <<>> THEN <<x>>
    ELSE IF KeyLess(SortKeyOf(x, sort_by), SortKeyOf(s[Len(s)], sort_by), sort_by)
         THEN Append(InsertSorted(x, SubSeq(s, 1, Len(s) - 1), sort_by), s[Len(s)])
         ELSE Append(s, x)

RECURSIVE SortAscending(_, _)
SortAscending(s, sort_by) ==
    IF s = <<>> THEN <<>>
    ELSE InsertSorted(s[Len(s)], SortAscending(SubSeq(s, 1, Len(s) - 1), sort_by), sort_by)

\* Mutant: reverse=True as the ascending result reversed, which reverses ties too.
ListSortReversesTies(s, sort_by, reverse) ==
    IF reverse THEN Reverse(SortAscending(s, sort_by)) ELSE SortAscending(s, sort_by)

\* Mutant: the reverse flag is ignored.
ListSortIgnoresReverse(s, sort_by, reverse) == SortAscending(s, sort_by)

\* buses.sort(key=..., reverse=reverse): list.sort is stable; with reverse it
\* reverses the list, sorts it ascending and reverses it again.
ListSort(s, sort_by, reverse) ==
    IF reverse THEN Reverse(SortAscending(Reverse(s), sort_by)) ELSE SortAscending(s, sort_by)

\* if sort_by == TIME ... elif sort_by == LINE ... elif sort_by == ROUTE ...
SortsByDeclaredKey(sort_by) ==
    sort_by \in {BusSortMethods_TIME, BusSortMethods_LINE, BusSortMethods_ROUTE}

\* Mutant: an undeclared key still honours reverse.
SortBusesReversesUnsorted(buses, sort_by, reverse) ==
    IF ~SortsByDeclaredKey(sort_by)
    THEN Returned(IF reverse THEN Reverse(buses) ELSE buses)
    ELSE IF Len(buses) >= 2
            /\ \E i \in 1..Len(buses) : ~KeyComparable(SortKeyOf(buses[i], sort_by), sort_by)
         THEN Raised("TypeError")
         ELSE Returned(ListSort(buses, sort_by, reverse))

\* The sorting step of get_buses on the list a getter returned.  Sorting a
\* list of two or more buses compares every key at least once.
SortBuses(buses, sort_by, reverse) ==
    IF ~SortsByDeclaredKey(sort_by) THEN Returned(buses)
    ELSE IF Len(buses) >= 2
            /\ \E i \in 1..Len(buses) : ~KeyComparable(SortKeyOf(buses[i], sort_by), sort_by)
         THEN Raised("TypeError")
         ELSE Returned(ListSort(buses, sort_by, reverse))

BusGetterOutcomes == {Returns, Raises("BusGetterUnavailable"), Raises("StopNotFound")}

\* Mutant: a handler for a base class.
GetBusesSkipsPyBusesException(exc) == Catches("PyBusesException", exc)

\* except BusGetterUnavailable: continue
GetBusesSkips(exc) == Catches("BusGetterUnavailable", exc)

\* for getter in getters: try: buses = getter(stopid); sort; return buses ...
RECURSIVE GetBusesLoop(_, _, _, _, _, _, _, _)
GetBusesLoop(getters, beh, supplied, stopid, sort_by, reverse, i, log) ==
    IF i > Len(getters)
    THEN [log |-> log, result |-> Raised(RaiseNamed("BusGetterUnavailable"))]
    ELSE LET log2 == Append(log, Invocation("BusGetter", getters[i], i, stopid))
             exc == IF beh[i].kind = "returns"
                    THEN SortBuses(BusesOf(i, supplied), sort_by, reverse)
                    ELSE Raised(beh[i].exc)
         IN IF exc.kind = "raised" /\ GetBusesSkips(exc.exc)
            THEN GetBusesLoop(getters, beh, supplied, stopid, sort_by, reverse, i + 1, log2)
            ELSE [log |-> log2, result |-> exc]

GetBusesRun(getters, beh, supplied, stopid, sort_by, reverse) ==
    IF Len(getters) = 0
    THEN [log |-> <<>>, result |-> Raised(RaiseNamed("MissingGetters"))]
    ELSE GetBusesLoop(getters, beh, supplied, stopid, sort_by, reverse, 1, <<>>)

\* The sort_by argument: <<>> when the caller gives none, <<v>> when it gives v.
\* 4 stands for a value that is none of the declared methods.
SortByArgs == {<<>>, <<BusSortMethods_NONE>>, <<BusSortMethods_TIME>>,
               <<BusSortMethods_LINE>>, <<BusSortMethods_ROUTE>>, <<4>>}

\* sort_by: Optional[int] = BusSortMethods.TIME
SortByParam(arg) == IF arg = <<>> THEN BusSortMethods_TIME ELSE arg[1]

get_buses(stopid, sort_by_arg, reverse) ==
    /\ call.op = "none"
    /\ LET getters == get_bus_getters
       IN \E beh \in SeqsOfLen(BusGetterOutcomes, Len(getters)),
             supplied \in SeqsUpTo(BusFields, MaxBuses) :
            /\ (\A i \in 1..Len(getters) : beh[i].kind # "returns") => supplied = <<>>
            /\ LET r == GetBusesRun(getters, beh, supplied, stopid,
                                    SortByParam(sort_by_arg), reverse)
               IN call' = [op |-> "get_buses",
                           args |-> [stopid |-> stopid, sort_by |-> sort_by_arg,
                                     reverse |-> reverse, supplied |-> supplied],
                           chain |-> getters, beh |-> beh,
                           log |-> r.log, result |-> r.result]
    /\ UNCHANGED <<registry, scanner>>

---------------------------------------------------------------------------
(* find_all_stops: the bulk scanner *)

\* The threads of a scan: 0 is the thread that called find_all_stops (it runs
\* the loop itself when threads <= 0), 1..MaxThreads are the Thread objects.
Threads == 0..MaxThreads

\* The IDs a scan can hand out: the histories are kept per ID.
ScanIds == 0..(MaxEnd + 1)

NoLast == [op |-> "none", g |-> 0, id |-> 0, exc |-> "none"]

\* A thread that has not been started.  stopid is stopid_tofind (and, inside
\* Counter.get, the local current); gi is the position of the for loop over
\* getters; last is the outcome of the provider call the thread has just come
\* out of (history, dropped at the thread's next step unless the call ended
\* the thread).
WorkerInit == [pc |-> "idle", stopid |-> 0, gi |-> 0, last |-> NoLast]

NoScan == [status |-> "none", exc |-> "none", value |-> None,
           end |-> 0, start |-> 0, threads |-> 0, update |-> TRUE,
           use_all_stop_getters |-> FALSE, use_all_stop_setters |-> "None",
           getters |-> <<>>, it |-> 0, started |-> 0]

NoCounter == [value |-> 0, limit |-> 0]

\* No find_all_stops call has been made.
ScannerIdle ==
    /\ scan = NoScan
    /\ counter = NoCounter
    /\ lock = 0
    /\ wk = [w \in Threads |-> WorkerInit]
    /\ tried = [id \in ScanIds |-> <<>>]
    /\ saved = [id \in ScanIds |-> <<>>]
    /\ claims = <<>>

\* Mutant: the setter list is not checked.
ScanPreconditionGettersOnly(getters, setters) ==
    IF Len(getters) = 0 THEN RaiseNamed("MissingGetters") ELSE "ok"

\* if not getters: raise MissingGetters; if not self.get_stop_setters(): raise MissingSetters
ScanPrecondition(getters, setters) ==
    IF Len(getters) = 0 THEN RaiseNamed("MissingGetters")
    ELSE IF Len(setters) = 0 THEN RaiseNamed("MissingSetters")
    ELSE "ok"

\* The call of find_all_stops up to the branch on threads: it captures the
\* online getters, checks the preconditions and, for threads > 0, creates the
\* Counter.
find_all_stops(end, start, threads, update, use_all_getters, use_all_setters) ==
    /\ call.op = "none"
    /\ scan.status = "none"
    /\ LET getters == get_stop_getters(TRUE)
           pre == ScanPrecondition(getters, get_stop_setters)
           args == [NoScan EXCEPT !.end = end, !.start = start, !.threads = threads,
                                  !.update = update,
                                  !.use_all_stop_getters = use_all_getters,
                                  !.use_all_stop_setters = use_all_setters,
                                  !.getters = getters]
       IN IF pre # "ok"
          THEN /\ scan' = [args EXCEPT !.status = "raised", !.exc = pre]
               /\ UNCHANGED <<counter, wk>>
          ELSE IF threads <= 0
               THEN /\ scan' = [args EXCEPT !.status = "running", !.it = start]
                    /\ wk' = [wk EXCEPT ![0].pc = "loop"]
                    /\ UNCHANGED counter
               ELSE /\ scan' = [args EXCEPT !.status = "starting"]
                    /\ counter' = [value |-> start, limit |-> end]
                    /\ UNCHANGED wk
    /\ UNCHANGED <<registry, call, lock, tried, saved, claims>>

\* Where a thread goes when _find_stop_and_save returns: the next iteration
\* of the for loop over the range, or of the while loop of _thread_f.
AfterProbe(w) == IF w = 0 THEN "loop" ELSE "acquire"

\* Mutant: an exception in a Thread reaches the caller of find_all_stops.
ErrorAlwaysReachesCaller(w) == TRUE

\* An exception nobody handles unwinds the thread it was raised in: only in
\* the calling thread is that the find_all_stops call.
ErrorReachesCaller(w) == w = 0

\* The worker record and the scan after exception exc left _find_stop_and_save
\* unhandled in thread w.
WorkerAfterError(w, last) == [wk[w] EXCEPT !.pc = IF w = 0 THEN "done" ELSE "dead", !.last = last]
ScanAfterError(w, exc) ==
    IF ErrorReachesCaller(w) THEN [scan EXCEPT !.status = "raised", !.exc = exc] ELSE scan

\* Mutant: range(start, end).
RangeHasNextExclusive(it, end) == it < end

\* range(start, end + 1) has a next value.
RangeHasNext(it, end) == it <= end

\* for stopid in range(start, end+1): one iteration of the sequential loop,
\* or the end of the loop and the return of find_all_stops.
ForNext ==
    /\ scan.status = "running"
    /\ wk[0].pc = "loop"
    /\ IF RangeHasNext(scan.it, scan.end)
       THEN /\ wk' = [wk EXCEPT ![0] = [pc |-> "getter", stopid |-> scan.it, gi |-> 1,
                                         last |-> NoLast]]
            /\ scan' = [scan EXCEPT !.it = @ + 1]
            /\ claims' = Append(claims, [w |-> 0, id |-> scan.it])
       ELSE /\ wk' = [wk EXCEPT ![0].pc = "done", ![0].last = NoLast]
            /\ scan' = [scan EXCEPT !.status = "returned"]
            /\ UNCHANGED claims
    /\ UNCHANGED <<registry, call, counter, lock, tried, saved>>

\* th = Thread(target=_thread_f, args=(counter,)); th.start()
ThreadStart ==
    /\ scan.status = "starting"
    /\ scan.started < scan.threads
    /\ scan' = [scan EXCEPT !.started = @ + 1]
    /\ wk' = [wk EXCEPT ![scan.started + 1].pc = "acquire"]
    /\ UNCHANGED <<registry, call, counter, lock, tried, saved, claims>>

AllThreadsEnded == \A w \in 1..MaxThreads : wk[w].pc \in {"idle", "done", "dead"}

\* Mutant: the threads are joined before the call returns.
ReturnsWhenJoined == scan.started = scan.threads /\ AllThreadsEnded

\* Mutant: for i in range(threads - 1).
ReturnsOneThreadShort == scan.started >= scan.threads - 1

\* The loop that starts the threads is over: find_all_stops falls off its end.
ReturnsWhen == scan.started = scan.threads

FindAllStopsReturn ==
    /\ scan.status = "starting"
    /\ ReturnsWhen
    /\ scan' = [scan EXCEPT !.status = "returned"]
    /\ UNCHANGED <<registry, call, counter, lock, wk, tried, saved, claims>>

\* Mutant: no mutual exclusion.
LockIgnored == TRUE

\* Lock.acquire() returns only when the lock is free.
LockAvailable == lock = 0

\* self.lock.acquire()
CounterAcquire(w) ==
    /\ wk[w].pc = "acquire"
    /\ LockAvailable
    /\ lock' = w
    /\ wk' = [wk EXCEPT ![w].pc = "read", ![w].last = NoLast]
    /\ UNCHANGED <<registry, call, scan, counter, tried, saved, claims>>

\* current = self.value
CounterRead(w) ==
    /\ wk[w].pc = "read"
    /\ wk' = [wk EXCEPT ![w].pc = "check", ![w].stopid = counter.value]
    /\ UNCHANGED <<registry, call, scan, counter, lock, tried, saved, claims>>

\* Mutant: the value is handed out without being incremented.
CounterCheckNoIncrement(w) ==
    /\ wk[w].pc = "check"
    /\ IF wk[w].stopid > counter.limit
       THEN wk' = [wk EXCEPT ![w].pc = "release_raise"]
       ELSE wk' = [wk EXCEPT ![w].pc = "release_return"]
    /\ UNCHANGED <<registry, call, scan, counter, lock, tried, saved, claims>>

\* if current > self.limit: ... else: self.value += 1
CounterCheck(w) ==
    /\ wk[w].pc = "check"
    /\ IF wk[w].stopid > counter.limit
       THEN /\ wk' = [wk EXCEPT ![w].pc = "release_raise"]
            /\ UNCHANGED counter
       ELSE /\ wk' = [wk EXCEPT ![w].pc = "release_return"]
            /\ counter' = [counter EXCEPT !.value = @ + 1]
    /\ UNCHANGED <<registry, call, scan, lock, tried, saved, claims>>

\* Mutant: the lock is released only on the path that raises IndexError.
CounterReleaseOnlyOnRaise(w) ==
    /\ wk[w].pc \in {"release_raise", "release_return"}
    /\ lock' = IF wk[w].pc = "release_raise" THEN 0 ELSE lock
    /\ IF wk[w].pc = "release_raise"
       THEN /\ wk' = [wk EXCEPT ![w].pc = "done"]
            /\ UNCHANGED claims
       ELSE /\ wk' = [wk EXCEPT ![w].pc = "getter", ![w].gi = 1]
            /\ claims' = Append(claims, [w |-> w, id |-> wk[w].stopid])
    /\ UNCHANGED <<registry, call, scan, counter, tried, saved>>

\* self.lock.release(), then raise IndexError() (which ends _thread_f) or
\* return current (which _thread_f hands to _find_stop_and_save).
CounterRelease(w) ==
    /\ wk[w].pc \in {"release_raise", "release_return"}
    /\ lock' = 0
    /\ IF wk[w].pc = "release_raise"
       THEN /\ wk' = [wk EXCEPT ![w].pc = "done"]
            /\ UNCHANGED claims
       ELSE /\ wk' = [wk EXCEPT ![w].pc = "getter", ![w].gi = 1]
            /\ claims' = Append(claims, [w |-> w, id |-> wk[w].stopid])
    /\ UNCHANGED <<registry, call, scan, counter, tried, saved>>

\* for getter in getters: the next getter is invoked, or the loop is over.
InvokeGetter(w) ==
    /\ wk[w].pc = "getter"
    /\ IF wk[w].gi > Len(scan.getters)
       THEN /\ wk' = [wk EXCEPT ![w].pc = AfterProbe(w), ![w].last = NoLast]
            /\ UNCHANGED tried
       ELSE /\ wk' = [wk EXCEPT ![w].pc = "in_getter", ![w].last = NoLast]
            /\ tried' = [tried EXCEPT ![wk[w].stopid] = Append(@, wk[w].gi)]
    /\ UNCHANGED <<registry, call, scan, counter, lock, saved, claims>>

\* Mutant: no handler for the getter's unavailability.
ScanSkipsNothing(exc) == FALSE

\* except StopGetterUnavailable: continue
ScanSkips(exc) == Catches("StopGetterUnavailable", exc)

\* except (StopNotFound, StopNotExist):
ScanNotFound(exc) == Catches("StopNotFound", exc) \/ Catches("StopNotExist", exc)

\* Mutant: not-found never ends the probe.
ScanNeverBreaks(use_all) == FALSE

\* if use_all_stop_getters: continue else: break
ScanBreaksOnNotFound(use_all) == ~use_all

\* The arguments of self.save_stop(stop, update=update, use_all_stop_setters=use_all_stop_setters)
SaveArgs(stop) ==
    [stop |-> stop, update |-> scan.update, use_all_stop_setters |-> scan.use_all_stop_setters]

\* getter(stopid_tofind) ends.  When it returns a Stop, save_stop is called
\* with it at once.
GetterOutcome(w) ==
    /\ wk[w].pc = "in_getter"
    /\ \E out \in StopGetterOutcomes :
         LET g == wk[w].gi
             id == wk[w].stopid
             last == [op |-> "getter", g |-> g, id |-> id, exc |-> out.exc]
         IN IF out.kind = "returns"
            THEN /\ wk' = [wk EXCEPT ![w].pc = "in_save", ![w].last = last]
                 /\ saved' = [saved EXCEPT ![id] = Append(@, SaveArgs(StopOf(g, id)))]
                 /\ UNCHANGED scan
            ELSE IF ScanSkips(out.exc)
            THEN /\ wk' = [wk EXCEPT ![w].pc = "getter", ![w].gi = g + 1, ![w].last = last]
                 /\ UNCHANGED <<scan, saved>>
            ELSE IF ScanNotFound(out.exc)
            THEN /\ IF ScanBreaksOnNotFound(scan.use_all_stop_getters)
                    THEN wk' = [wk EXCEPT ![w].pc = AfterProbe(w), ![w].last = last]
                    ELSE wk' = [wk EXCEPT ![w].pc = "getter", ![w].gi = g + 1, ![w].last = last]
                 /\ UNCHANGED <<scan, saved>>
            ELSE /\ wk' = [wk EXCEPT ![w] = WorkerAfterError(w, last)]
                 /\ scan' = ScanAfterError(w, out.exc)
                 /\ UNCHANGED saved
    /\ UNCHANGED <<registry, call, counter, lock, tried, claims>>

\* Mutant: the handler names the getter's exception.
ScanSwallowsGetterUnavailable(exc) == Catches("StopGetterUnavailable", exc)

\* except StopSetterUnavailable: pass
ScanSwallows(exc) == Catches("StopSetterUnavailable", exc)

\* self.save_stop(...) ends.  Whether it returns or raises
\* StopSetterUnavailable, the for loop goes on to the next getter.
SaveOutcome(w) ==
    /\ wk[w].pc = "in_save"
    /\ \E beh \in SeqsOfLen(StopSetterOutcomes, Len(get_stop_setters)) :
         LET g == wk[w].gi
             id == wk[w].stopid
             r == SaveStopRun(get_stop_setters, beh, StopOf(g, id), scan.update,
                              scan.use_all_stop_setters).result
             last == [op |-> "save", g |-> g, id |-> id, exc |-> r.exc]
         IN IF r.kind = "returned" \/ ScanSwallows(r.exc)
            THEN /\ wk' = [wk EXCEPT ![w].pc = "getter", ![w].gi = g + 1, ![w].last = last]
                 /\ UNCHANGED scan
            ELSE /\ wk' = [wk EXCEPT ![w] = WorkerAfterError(w, last)]
                 /\ scan' = ScanAfterError(w, r.exc)
    /\ UNCHANGED <<registry, call, counter, lock, tried, saved, claims>>

---------------------------------------------------------------------------
(* Specifications *)

\* PyBuses(): empty provider lists and the default flags.
Init ==
    /\ stop_getters = <<>>
    /\ stop_setters = <<>>
    /\ stop_deleters = <<>>
    /\ bus_getters = <<>>
    /\ use_all_stop_setters = FALSE
    /\ use_all_stop_deleters = TRUE
    /\ online_attr = [f \in Callables |-> "unset"]
    /\ registered = <<>>
    /\ call = NoCall
    /\ ScannerIdle

\* PyBuses(use_all_stop_setters=...)
InitSave ==
    /\ stop_getters = <<>>
    /\ stop_setters = <<>>
    /\ stop_deleters = <<>>
    /\ bus_getters = <<>>
    /\ use_all_stop_setters \in BOOLEAN
    /\ use_all_stop_deleters = TRUE
    /\ online_attr = [f \in Callables |-> "unset"]
    /\ registered = <<>>
    /\ call = NoCall
    /\ ScannerIdle

\* PyBuses(stop_deleters=[...], use_all_stop_deleters=...): the constructor is
\* the only way to register Stop Deleters.
InitDelete ==
    /\ stop_getters = <<>>
    /\ stop_setters = <<>>
    /\ stop_deleters \in SeqsUpTo(StopDeleterCallables, MaxStopDeleters)
    /\ bus_getters = <<>>
    /\ use_all_stop_setters = FALSE
    /\ use_all_stop_deleters \in BOOLEAN
    /\ online_attr = [f \in Callables |-> "unset"]
    /\ registered = <<>>
    /\ call = NoCall
    /\ ScannerIdle

NextFind ==
    \/ \E f \in Callables, online \in BOOLEAN : add_stop_getter(f, online)
    \/ \E stopid \in StopIds, online \in BOOLEAN : find_stop(stopid, online)

SpecFind == Init /\ [][NextFind]_vars

NextSave ==
    \/ \E f \in StopSetterCallables : add_stop_setter(f)
    \/ \E stop \in {StopOf(0, stopid) : stopid \in StopIds},
          update \in BOOLEAN, use_all \in OptionalBool :
         save_stop(stop, update, use_all)

SpecSave == InitSave /\ [][NextSave]_vars

NextDelete == \E stopid \in StopIds : delete_stop(stopid)

SpecDelete == InitDelete /\ [][NextDelete]_vars

NextBuses ==
    \/ \E f \in BusGetterCallables : add_bus_getter(f)
    \/ \E stopid \in StopIds, sort_by \in SortByArgs, reverse \in BOOLEAN :
         get_buses(stopid, sort_by, reverse)

SpecBuses == Init /\ [][NextBuses]_vars

\* The scans of the model: getters and one setter are registered as in
\* src/misctests.py, then find_all_stops is called once.
ScanStarts == {1, 2}
ScanEnds == 0..MaxEnd

RegisterForScan(fs, getters) ==
    \/ \E f \in fs, online \in BOOLEAN :
         scan.status = "none" /\ Len(stop_getters) < getters /\ add_stop_getter(f, online)
    \/ scan.status = "none" /\ Len(stop_setters) < 1 /\ add_stop_setter("db_save_stop")

ProbeStep(w) ==
    \/ InvokeGetter(w)
    \/ GetterOutcome(w)
    \/ SaveOutcome(w)

\* Sequential scans (threads <= 0) over up to two getters.
NextScan ==
    \/ RegisterForScan(Callables, 2)
    \/ \E end \in ScanEnds, start \in ScanStarts, threads \in {-1, 0},
          update \in BOOLEAN, use_all_getters \in BOOLEAN, use_all_setters \in OptionalBool :
         find_all_stops(end, start, threads, update, use_all_getters, use_all_setters)
    \/ ForNext
    \/ ProbeStep(0)

SpecScan == Init /\ [][NextScan]_vars

\* Scans with any number of threads (0 is the sequential scan) over one
\* getter, the other arguments at their defaults as in
\* test_find_all_stops_threaded.
NextThreads ==
    \/ RegisterForScan({"getter_vitrasa", "db_find_stop"}, 1)
    \/ \E end \in ScanEnds, start \in ScanStarts, threads \in 0..MaxThreads :
         find_all_stops(end, start, threads, TRUE, FALSE, "None")
    \/ ForNext
    \/ ProbeStep(0)
    \/ ThreadStart
    \/ FindAllStopsReturn
    \/ \E w \in 1..MaxThreads :
         \/ CounterAcquire(w)
         \/ CounterRead(w)
         \/ CounterCheck(w)
         \/ CounterRelease(w)
         \/ ProbeStep(w)

SpecThreads == Init /\ [][NextThreads]_vars

\* The registry: providers are added role by role, then a Stop is deleted.
NextRegistry ==
    \/ \E online \in BOOLEAN : add_stop_getter("getter_vitrasa", online)
    \/ \E f \in StopSetterCallables : add_stop_setter(f)
    \/ \E f \in BusGetterCallables : add_bus_getter(f)
    \/ \E f \in StopDeleterCallables : add_stop_deleter(f)
    \/ \E stopid \in StopIds : delete_stop(stopid)

SpecRegistry == Init /\ [][NextRegistry]_vars

\* PyBuses(stop_deleters=[...], use_all_stop_deleters=...) with up to two Stop Deleters.
InitOps ==
    /\ stop_getters = <<>>
    /\ stop_setters = <<>>
    /\ stop_deleters \in SeqsUpTo({"db_delete_stop"}, 2)
    /\ bus_getters = <<>>
    /\ use_all_stop_setters = FALSE
    /\ use_all_stop_deleters \in BOOLEAN
    /\ online_attr = [f \in Callables |-> "unset"]
    /\ registered = <<>>
    /\ call = NoCall
    /\ ScannerIdle

\* Every operation of a PyBuses object: providers are registered as in
\* src/misctests.py (the function online, the bound method not), then one of
\* the resolver operations or a scan is run.
NextOps ==
    \/ scan.status = "none" /\ Len(stop_getters) < 2 /\ add_stop_getter("getter_vitrasa", TRUE)
    \/ scan.status = "none" /\ Len(stop_getters) < 2 /\ add_stop_getter("db_find_stop", FALSE)
    \/ \E f \in StopSetterCallables :
         scan.status = "none" /\ Len(stop_setters) < 2 /\ add_stop_setter(f)
    \/ \E f \in BusGetterCallables :
         scan.status = "none" /\ Len(bus_getters) < 1 /\ add_bus_getter(f)
    \/ \E f \in StopDeleterCallables : scan.status = "none" /\ add_stop_deleter(f)
    \/ \E stopid \in StopIds, online \in BOOLEAN : scan.status = "none" /\ find_stop(stopid, online)
    \/ \E stopid \in StopIds, update \in BOOLEAN, use_all \in OptionalBool :
         scan.status = "none" /\ save_stop(StopOf(0, stopid), update, use_all)
    \/ \E stopid \in StopIds : scan.status = "none" /\ delete_stop(stopid)
    \/ \E stopid \in StopIds : scan.status = "none" /\ get_buses(stopid, <<>>, FALSE)
    \/ \E end \in 1..2, threads \in 0..1 : find_all_stops(end, 1, threads, TRUE, FALSE, "None")
    \/ ForNext
    \/ ThreadStart
    \/ FindAllStopsReturn
    \/ \E w \in 0..1 :
         \/ CounterAcquire(w)
         \/ CounterRead(w)
         \/ CounterCheck(w)
         \/ CounterRelease(w)
         \/ ProbeStep(w)

SpecOps == InitOps /\ [][NextOps]_vars

---------------------------------------------------------------------------
(* Claims about find_stop *)

IsFindStop == call.op = "find_stop"

\* The getters at positions 1..n of the chain were invoked, once each, in
\* list order, each with the stop id given to the call, and no other.
GettersInvokedUpTo(n) ==
    /\ Len(call.log) = n
    /\ \A i \in 1..n :
         call.log[i] = Invocation("StopGetter", call.chain[i], i, call.args.stopid)

AllEarlierUnavailable(k, skip) ==
    \A j \in 1..(k - 1) : call.beh[j] = Raises(skip)

\* C1: when getters 0..k-1 of a non-empty selected list raise
\* StopGetterUnavailable and getter k returns a Stop, find_stop returns exactly
\* getter k's Stop, getters 0..k are invoked once each in list order, and no
\* getter after k is invoked.
C1_FirstAvailableGetterWins ==
    IsFindStop =>
        \A k \in 1..Len(call.chain) :
            (call.beh[k].kind = "returns" /\ AllEarlierUnavailable(k, "StopGetterUnavailable"))
            => /\ call.result.kind = "returned"
               /\ call.result.value = StopOf(k, call.args.stopid)
               /\ GettersInvokedUpTo(k)

C1_Witness ==
    /\ IsFindStop
    /\ Len(call.chain) = 3
    /\ call.beh[1] = Raises("StopGetterUnavailable")
    /\ call.beh[2].kind = "returns"
    /\ call.beh[3].kind = "returns"
    /\ call.result.kind = "returned"
    /\ call.result.value = StopOf(2, call.args.stopid)
    /\ Len(call.log) = 2

\* C2: when a getter raises StopNotFound or StopNotExist, all earlier getters
\* having raised StopGetterUnavailable, find_stop fails with that same error
\* and invokes no later getter, even when a later getter would have returned
\* the Stop.
C2_NotFoundEndsTheChain ==
    IsFindStop =>
        \A k \in 1..Len(call.chain) :
            (/\ call.beh[k] \in {Raises("StopNotFound"), Raises("StopNotExist")}
             /\ AllEarlierUnavailable(k, "StopGetterUnavailable"))
            => /\ call.result.kind = "raised"
               /\ call.result.exc = call.beh[k].exc
               /\ GettersInvokedUpTo(k)

C2_Witness ==
    /\ IsFindStop
    /\ Len(call.chain) = 3
    /\ call.beh[1] = Raises("StopGetterUnavailable")
    /\ call.beh[2] = Raises("StopNotFound")
    /\ call.beh[3].kind = "returns"
    /\ call.result = Raised("StopNotFound")
    /\ Len(call.log) = 2

NoneRegisteredOnline == \A i \in 1..Len(registered) : ~registered[i].online

\* C3: find_stop fails with MissingGetters, without invoking any provider,
\* whenever the selected getter list is empty; this includes
\* find_stop(online=True) when getters are registered but none of them is
\* flagged online.
C3_EmptySelectionIsMissingGetters ==
    (/\ IsFindStop
     /\ \/ call.chain = <<>>
        \/ (~call.args.online /\ stop_getters = <<>>)
        \/ (call.args.online /\ NoneRegisteredOnline))
    => (call.result = Raised("MissingGetters") /\ call.log = <<>>)

C3_Witness ==
    /\ IsFindStop
    /\ call.args.online
    /\ Len(stop_getters) >= 2
    /\ NoneRegisteredOnline
    /\ call.result = Raised("MissingGetters")
    /\ call.log = <<>>

AllGettersUnavailable ==
    /\ Len(call.chain) > 0
    /\ \A i \in 1..Len(call.chain) : call.beh[i] = Raises("StopGetterUnavailable")

\* C4: find_stop fails with StopGetterUnavailable exactly when the selected
\* getter list is non-empty and every getter in it raised
\* StopGetterUnavailable; every getter of the list was then invoked exactly
\* once, in list order, before the failure.
C4_UnavailableIffAllUnavailable ==
    IsFindStop =>
        /\ call.result = Raised("StopGetterUnavailable") <=> AllGettersUnavailable
        /\ AllGettersUnavailable => GettersInvokedUpTo(Len(call.chain))

C4_Witness ==
    /\ IsFindStop
    /\ Len(call.chain) = 3
    /\ AllGettersUnavailable
    /\ call.result = Raised("StopGetterUnavailable")
    /\ Len(call.log) = 3

---------------------------------------------------------------------------
(* Claims about save_stop *)

IsSaveStop == call.op = "save_stop"

Min(S) == CHOOSE x \in S : \A y \in S : x <= y

\* The setters at positions 1..n of the list were invoked, once each, in
\* list order, each with the Stop and the update flag of the call.
SettersInvokedUpTo(n) ==
    /\ Len(call.log) = n
    /\ \A i \in 1..n :
         call.log[i] = Invocation("StopSetter", call.chain[i], i,
                                  [stop |-> call.args.stop, update |-> call.args.update])

\* The use-all-setters choice in force: the argument, or the instance default.
UseAllSettersInForce ==
    IF call.args.use_all_stop_setters = "None"
    THEN use_all_stop_setters
    ELSE call.args.use_all_stop_setters = "True"

\* Positions whose setter does not raise the skip signal.
SettersNotSkipped ==
    {k \in 1..Len(call.chain) : call.beh[k] # Raises("StopSetterUnavailable")}

InvokedSetters == 1..Len(call.log)

\* C5: with use-all-setters false, setters are invoked in list order up to and
\* including the first one that does not raise StopSetterUnavailable and none
\* after it (so at most one setter succeeds); with use-all-setters true, every
\* setter of the list is invoked exactly once in list order, whatever mix of
\* successes and StopSetterUnavailable occurs.
C5_SaveStopInvocationPattern ==
    IsSaveStop =>
        /\ ~UseAllSettersInForce =>
             /\ SettersInvokedUpTo(IF SettersNotSkipped = {} THEN Len(call.chain)
                                   ELSE Min(SettersNotSkipped))
             /\ Cardinality({i \in InvokedSetters : call.beh[i] = Returns}) <= 1
        /\ (/\ UseAllSettersInForce
            /\ \A k \in 1..Len(call.chain) :
                 call.beh[k] \in {Returns, Raises("StopSetterUnavailable")})
           => SettersInvokedUpTo(Len(call.chain))

C5_Witness ==
    /\ IsSaveStop
    /\ ~UseAllSettersInForce
    /\ Len(call.chain) = 3
    /\ call.beh[1] = Raises("StopSetterUnavailable")
    /\ call.beh[2] = Returns
    /\ call.beh[3] = Returns
    /\ Len(call.log) = 2
    /\ call.result.kind = "returned"

SaveStopFailsCorrectly ==
    /\ (call.result = Raised("MissingSetters") /\ call.log = <<>>) <=> call.chain = <<>>
    /\ call.result = Raised("MissingSetters") => call.log = <<>>
    /\ call.result = Raised("StopSetterUnavailable")
       <=> (/\ call.chain # <<>>
            /\ \A i \in InvokedSetters : call.beh[i] = Raises("StopSetterUnavailable"))

\* C6 as stated: save_stop returns normally iff at least one setter
\* completed without raising.
C6_Original ==
    IsSaveStop =>
        /\ SaveStopFailsCorrectly
        /\ call.result.kind = "returned" <=> \E i \in InvokedSetters : call.beh[i] = Returns

\* C6, amended: save_stop fails with MissingSetters (no setter invoked) iff
\* the setter list is empty; it fails with StopSetterUnavailable iff the list
\* is non-empty and every invoked setter raised StopSetterUnavailable; it
\* returns normally iff at least one setter completed without raising and no
\* invoked setter raised an error other than StopSetterUnavailable.
C6_SaveStopOutcome ==
    IsSaveStop =>
        /\ SaveStopFailsCorrectly
        /\ call.result.kind = "returned"
           <=> (/\ \E i \in InvokedSetters : call.beh[i] = Returns
                /\ \A i \in InvokedSetters :
                     call.beh[i] \in {Returns, Raises("StopSetterUnavailable")})

C6_Witness ==
    /\ IsSaveStop
    /\ UseAllSettersInForce
    /\ Len(call.chain) = 3
    /\ call.beh[1] = Raises("StopSetterUnavailable")
    /\ call.beh[2] = Returns
    /\ call.beh[3] = Raises("StopSetterUnavailable")
    /\ Len(call.log) = 3
    /\ call.result.kind = "returned"

---------------------------------------------------------------------------
(* Claims about delete_stop *)

IsDeleteStop == call.op = "delete_stop"

DeletersInvokedUpTo(n) ==
    /\ Len(call.log) = n
    /\ \A i \in 1..n :
         call.log[i] = Invocation("StopDeleter", call.chain[i], i, call.args.stopid)

DeletersNotSkipped ==
    {k \in 1..Len(call.chain) : call.beh[k] # Raises("StopDeleterUnavailable")}

\* C7: with use-all-deleters true (the default) every registered Stop-Deleter
\* is invoked exactly once in list order, also after an earlier deleter
\* succeeded; with use-all-deleters false delete_stop stops after the first
\* deleter that does not raise StopDeleterUnavailable.  It fails with
\* MissingDeleters iff the deleter list is empty and with
\* StopDeleterUnavailable iff every deleter raised StopDeleterUnavailable.
C7_DeleteStopContract ==
    IsDeleteStop =>
        /\ (/\ use_all_stop_deleters
            /\ \A k \in 1..Len(call.chain) :
                 call.beh[k] \in {Returns, Raises("StopDeleterUnavailable")})
           => DeletersInvokedUpTo(Len(call.chain))
        /\ ~use_all_stop_deleters =>
             DeletersInvokedUpTo(IF DeletersNotSkipped = {} THEN Len(call.chain)
                                 ELSE Min(DeletersNotSkipped))
        /\ call.result = Raised("MissingDeleters") <=> call.chain = <<>>
        /\ call.result = Raised("StopDeleterUnavailable")
           <=> (/\ call.chain # <<>>
                /\ \A k \in 1..Len(call.chain) :
                     call.beh[k] = Raises("StopDeleterUnavailable"))

---------------------------------------------------------------------------
(* Claims about get_buses *)

IsGetBuses == call.op = "get_buses"

BusGettersInvokedUpTo(n) ==
    /\ Len(call.log) = n
    /\ \A i \in 1..n :
         call.log[i] = Invocation("BusGetter", call.chain[i], i, call.args.stopid)

BusGettersNotSkipped ==
    {k \in 1..Len(call.chain) : call.beh[k] # Raises("BusGetterUnavailable")}

\* v holds exactly the objects of the list src, each once.
IsPermutationOf(v, src) ==
    /\ Len(v) = Len(src)
    /\ \A i \in 1..Len(src) : \E p \in 1..Len(v) : v[p] = src[i]
    /\ \A p, q \in 1..Len(v) : v[p].id = v[q].id => p = q

AllTimesSet(supplied) == \A i \in 1..Len(supplied) : supplied[i].time # NoTime

\* C8: the first Bus-Getter in list order that does not raise
\* BusGetterUnavailable supplies the result (an empty sequence too); every
\* earlier getter was invoked exactly once and no later getter is invoked.
\* get_buses fails with MissingGetters iff the Bus-Getter list is empty and with
\* BusGetterUnavailable iff every Bus-Getter raised BusGetterUnavailable.
C8_FirstBusGetterSupplies ==
    IsGetBuses =>
        /\ BusGettersNotSkipped # {} =>
             LET k == Min(BusGettersNotSkipped)
             IN /\ BusGettersInvokedUpTo(k)
                /\ call.beh[k].kind = "raises" => call.result = Raised(call.beh[k].exc)
                /\ call.beh[k].kind = "returns" =>
                     /\ call.result.kind = "returned" =>
                          IsPermutationOf(call.result.value, BusesOf(k, call.args.supplied))
                     /\ call.result.kind = "raised" => call.result.exc = "TypeError"
                     /\ AllTimesSet(call.args.supplied) => call.result.kind = "returned"
                     /\ call.args.supplied = <<>> => call.result = Returned(<<>>)
        /\ call.result = Raised("MissingGetters") <=> call.chain = <<>>
        /\ call.result = Raised("BusGetterUnavailable")
           <=> (call.chain # <<>> /\ BusGettersNotSkipped = {})

C8_Witness ==
    /\ IsGetBuses
    /\ Len(call.chain) = 2
    /\ call.beh[1] = Returns
    /\ call.beh[2] = Returns
    /\ call.args.supplied = <<>>
    /\ call.result = Returned(<<>>)
    /\ Len(call.log) = 1

\* The sort key in force: TIME when the caller gives none.
KeyInForce == IF call.args.sort_by = <<>> THEN BusSortMethods_TIME ELSE call.args.sort_by[1]

SortsByField == KeyInForce \in {BusSortMethods_TIME, BusSortMethods_LINE, BusSortMethods_ROUTE}

\* The field of a bus that the key in force names.
FieldOf(bus) ==
    CASE KeyInForce = BusSortMethods_TIME -> bus.time
      [] KeyInForce = BusSortMethods_LINE -> bus.line
      [] KeyInForce = BusSortMethods_ROUTE -> bus.route

\* a comes strictly before b in the order of the field in force.
FieldBefore(a, b) ==
    IF KeyInForce = BusSortMethods_TIME THEN a[1] < b[1] ELSE Ord(a) < Ord(b)

\* The list the supplying getter returned.
SuppliedBuses == BusesOf(call.log[Len(call.log)].pos, call.args.supplied)

\* C9: for sort key TIME, LINE or ROUTE the returned sequence is a permutation
\* of the sequence the provider supplied, ordered non-decreasingly by the
\* bus's time, line or route respectively, and non-increasingly when reverse
\* is true; when no key is given the key is TIME.
C9_SortedPermutation ==
    (IsGetBuses /\ call.result.kind = "returned" /\ SortsByField) =>
        LET v == call.result.value
        IN /\ IsPermutationOf(v, SuppliedBuses)
           /\ \A p, q \in 1..Len(v) :
                p < q => IF call.args.reverse
                         THEN ~FieldBefore(FieldOf(v[p]), FieldOf(v[q]))
                         ELSE ~FieldBefore(FieldOf(v[q]), FieldOf(v[p]))

C9_Witness ==
    /\ IsGetBuses
    /\ call.result.kind = "returned"
    /\ call.args.sort_by = <<BusSortMethods_LINE>>
    /\ call.args.reverse
    /\ Len(call.result.value) = 3
    /\ call.result.value # SuppliedBuses
    /\ call.result.value[1].line = "B"
    /\ call.result.value[3].line = "A"

PositionOf(v, id) == CHOOSE p \in 1..Len(v) : v[p].id = id

\* C10: the sort is stable: for every sort key (NONE, TIME, LINE, ROUTE) and
\* for both values of reverse, any two buses with equal sort-key values appear
\* in the result in the same relative order in which the provider supplied
\* them.
C10_SortIsStable ==
    (/\ IsGetBuses
     /\ call.result.kind = "returned"
     /\ KeyInForce \in {BusSortMethods_NONE, BusSortMethods_TIME,
                        BusSortMethods_LINE, BusSortMethods_ROUTE}) =>
        LET v == call.result.value
            src == SuppliedBuses
        IN /\ IsPermutationOf(v, src)
           /\ \A i, j \in 1..Len(src) :
                (/\ i < j
                 /\ (SortsByField => FieldOf(src[i]) = FieldOf(src[j])))
                => PositionOf(v, src[i].id) < PositionOf(v, src[j].id)

C10_Witness ==
    /\ IsGetBuses
    /\ call.result.kind = "returned"
    /\ call.args.sort_by = <<BusSortMethods_TIME>>
    /\ call.args.reverse
    /\ Len(call.result.value) = 3
    /\ call.result.value # SuppliedBuses
    /\ \E p \in 1..2 :
         /\ call.result.value[p].time = call.result.value[p + 1].time
         /\ call.result.value[p].line # call.result.value[p + 1].line

\* C11: when the sort key given is NONE, or any value that is none of the
\* declared methods, get_buses returns the buses exactly as the supplying
\* getter returned them, for both values of reverse, and does not reject the
\* call: whenever the first getter that is not unavailable returns, the
\* call returns.
C11_UndeclaredKeyKeepsOrder ==
    (/\ IsGetBuses
     /\ ~SortsByField
     /\ BusGettersNotSkipped # {}
     /\ call.beh[Min(BusGettersNotSkipped)].kind = "returns") =>
        /\ call.result.kind = "returned"
        /\ call.result.value = BusesOf(Min(BusGettersNotSkipped), call.args.supplied)

C11_Witness ==
    /\ IsGetBuses
    /\ call.args.sort_by = <<4>>
    /\ call.args.reverse
    /\ call.result.kind = "returned"
    /\ Len(call.result.value) = 3
    /\ call.result.value = SuppliedBuses
    /\ call.result.value[1].line = "B"
    /\ call.result.value[1].time = NoTime
    /\ call.result.value[2].line = "A"
    /\ call.result.value[3].time = <<1>>

---------------------------------------------------------------------------
(* Claims about find_all_stops *)

ScanCalled == scan.status # "none"

\* The registered Stop-Getters that carry the online flag.
OnlineGetterPositions == {i \in 1..Len(stop_getters) : online_attr[stop_getters[i]] = "True"}

\* Nothing of the scan has happened: no getter invoked, nothing handed to
\* save_stop, no ID handed out, no thread started, no Counter made.
NoScanWork ==
    /\ \A id \in ScanIds : tried[id] = <<>> /\ saved[id] = <<>>
    /\ claims = <<>>
    /\ \A w \in Threads : wk[w] = WorkerInit
    /\ scan.started = 0
    /\ counter = NoCounter
    /\ lock = 0

ScanRangeSize == IF scan.end >= scan.start THEN scan.end - scan.start + 1 ELSE 0

PreconditionError == scan.exc \in {"MissingGetters", "MissingSetters"}

\* The probe of the i-th ID handed out has invoked its first getter.
ProbeBegun(i) ==
    /\ tried[claims[i].id] # <<>>
    /\ tried[claims[i].id][1] = 1

\* No getter position occurs twice among the invocations made for an ID.
InvokedInOrder(id) ==
    \A p, q \in 1..Len(tried[id]) : p < q => tried[id][p] < tried[id][q]

\* C13: find_all_stops with threads <= 0 probes the IDs of [start, end] one
\* after the other in ascending order, each exactly once and none outside the
\* range, in the calling thread; when it returns it has probed every ID of the
\* range; when start > end it probes nothing and returns normally.  The call
\* ends otherwise only with an error that a provider raised and the probe
\* does not handle.
C13_SequentialScanAscending ==
    (ScanCalled /\ scan.threads <= 0) =>
        /\ \A i \in 1..Len(claims) :
             /\ claims[i] = [w |-> 0, id |-> scan.start + i - 1]
             /\ claims[i].id <= scan.end
             /\ (i < Len(claims) \/ wk[0].pc # "getter" \/ wk[0].gi > 1) => ProbeBegun(i)
        /\ \A id \in ScanIds :
             /\ InvokedInOrder(id)
             /\ tried[id] # <<>> => \E i \in 1..Len(claims) : claims[i].id = id
        /\ scan.status = "returned" => Len(claims) = ScanRangeSize
        /\ scan.start > scan.end =>
             /\ claims = <<>>
             /\ scan.status = "raised" => PreconditionError
        /\ (scan.status = "raised" /\ ~PreconditionError) =>
             /\ wk[0].last.exc = scan.exc
             /\ wk[0].last.op = "getter" =>
                  scan.exc \notin {"StopGetterUnavailable", "StopNotFound", "StopNotExist"}
             /\ wk[0].last.op = "save" => scan.exc # "StopSetterUnavailable"
        /\ \A w \in 1..MaxThreads : wk[w] = WorkerInit

C13_Witness ==
    /\ scan.status = "returned"
    /\ scan.threads = -1
    /\ scan.start = 2
    /\ scan.end = 3
    /\ Len(scan.getters) = 2
    /\ claims = <<[w |-> 0, id |-> 2], [w |-> 0, id |-> 3]>>
    /\ tried[2] = <<1, 2>>
    /\ tried[3] = <<1>>
    /\ saved[2] # <<>>

ThreadedScanRunning == scan.status \in {"starting", "returned"} /\ scan.threads > 0

\* Worker w has moved past the probe of the i-th ID handed out.
BeyondFirstGetter(w, i) ==
    \/ \E j \in (i + 1)..Len(claims) : claims[j].w = w
    \/ wk[w].pc \notin {"getter"}
    \/ wk[w].gi > 1

\* C14: in a scan with threads > 0 the cursor hands out start, start+1, ...
\* without ever handing out a value twice and never a value above end, each
\* to one started worker, which probes it once; once a worker has found the
\* cursor exhausted every ID of [start, end] has been handed out.
C14_CursorHandsOutEachIdOnce ==
    ThreadedScanRunning =>
        /\ \A i, j \in 1..Len(claims) : i # j => claims[i].id # claims[j].id
        /\ \A i \in 1..Len(claims) :
             /\ claims[i].id = scan.start + i - 1
             /\ claims[i].id <= scan.end
             /\ claims[i].w \in 1..scan.started
             /\ BeyondFirstGetter(claims[i].w, i) => ProbeBegun(i)
        /\ \A id \in ScanIds :
             /\ InvokedInOrder(id)
             /\ tried[id] # <<>> => \E i \in 1..Len(claims) : claims[i].id = id
        /\ (\E w \in 1..MaxThreads : wk[w].pc = "done") => Len(claims) = ScanRangeSize
        /\ wk[0] = WorkerInit

C14_Witness ==
    /\ scan.status = "returned"
    /\ scan.threads = 2
    /\ scan.start = 1
    /\ scan.end = 3
    /\ wk[1].pc = "done"
    /\ wk[2].pc = "done"
    /\ claims = <<[w |-> 2, id |-> 1], [w |-> 1, id |-> 2], [w |-> 2, id |-> 3]>>
    /\ \A id \in 1..3 : tried[id] = <<1>>

\* C15: the scanner calls save_stop exactly once for every ID for which an
\* online getter returned a Stop, whatever the number of online getters, and
\* never for an ID no getter was asked about.
C15_SavedOncePerFoundId ==
    ScanCalled =>
        \A id \in ScanIds :
            /\ Len(saved[id]) <= 1
            /\ saved[id] # <<>> => tried[id] # <<>>

\* Thread w has just got a not-found answer from a getter.
JustNotFound(w) ==
    /\ wk[w].last.op = "getter"
    /\ wk[w].last.exc \in {"StopNotFound", "StopNotExist"}

\* C16: when an online getter has raised StopNotFound or StopNotExist for an
\* ID, then with use_all_stop_getters false the thread has left the probe of
\* that ID (the getter that answered is the last one invoked for it) and the
\* scan goes on with the next ID; with use_all_stop_getters true the thread
\* stays on the same ID and moves to the next online getter.
C16_NotFoundAbandonsOrContinues ==
    \A w \in Threads :
        JustNotFound(w) =>
            LET g == wk[w].last.g
                id == wk[w].last.id
            IN /\ tried[id][Len(tried[id])] = g
               /\ scan.status \in {"running", "starting", "returned"}
               /\ IF scan.use_all_stop_getters
                  THEN /\ wk[w].pc = "getter"
                       /\ wk[w].stopid = id
                       /\ wk[w].gi = g + 1
                  ELSE /\ wk[w].pc = (IF w = 0 THEN "loop" ELSE "acquire")
                       /\ w = 0 => scan.it = id + 1

C16_Witness ==
    /\ JustNotFound(0)
    /\ ~scan.use_all_stop_getters
    /\ Len(scan.getters) = 2
    /\ wk[0].last.g = 1
    /\ wk[0].last.id = 1
    /\ scan.end = 2
    /\ tried[1] = <<1>>
    /\ wk[0].pc = "loop"

\* save_stop has just failed with StopSetterUnavailable in thread w.
JustSaveUnavailable(w) ==
    /\ wk[w].last.op = "save"
    /\ wk[w].last.exc = "StopSetterUnavailable"

\* C17: when save_stop fails with StopSetterUnavailable for a found Stop the
\* scan is not aborted: the thread stays in the probe, find_all_stops never
\* ends with StopSetterUnavailable, and a sequential scan that ends with no
\* other error has probed every ID up to end.
C17_SetterUnavailableDoesNotAbort ==
    /\ \A w \in Threads :
         JustSaveUnavailable(w) =>
             /\ wk[w].pc = "getter"
             /\ wk[w].stopid = wk[w].last.id
             /\ scan.status = "running"
    /\ scan.exc # "StopSetterUnavailable"
    /\ (scan.threads <= 0 /\ scan.status \in {"running", "returned"} /\ wk[0].pc \in {"loop", "done"}) =>
         /\ Len(claims) = scan.it - scan.start
         /\ wk[0].pc = "done" => scan.it = scan.end + 1 \/ (scan.start > scan.end /\ scan.it = scan.start)

C17_Witness ==
    /\ JustSaveUnavailable(0)
    /\ wk[0].last.id = 1
    /\ scan.start = 1
    /\ scan.end = 2
    /\ scan.status = "running"
    /\ saved[1] # <<>>
    /\ wk[0].pc = "getter"

\* All the threads asked for have been started and the call has not returned yet.
AllThreadsStarted == scan.status = "starting" /\ scan.started = scan.threads

\* C18: find_all_stops with threads > 0 returns as soon as all threads have
\* been started, whatever the threads are doing: from every state in which
\* the last thread has been started the call can return at once, and what it
\* returns is None, which tells nothing about completion.
C18_ReturnsOnceThreadsStarted ==
    /\ AllThreadsStarted => ENABLED FindAllStopsReturn
    /\ (scan.status = "returned" /\ scan.threads > 0) =>
         /\ scan.value = None
         /\ scan.started = scan.threads

\* The call has returned while one ID is being probed and a later one has
\* not been handed out.
C18_Witness ==
    /\ scan.status = "returned"
    /\ scan.threads = 2
    /\ scan.start = 1
    /\ scan.end = 3
    /\ Len(claims) = 2
    /\ wk[1].pc = "in_getter"
    /\ wk[2].pc = "in_save"
    /\ counter.value = 3

\* Worker w was ended by an exception that left _find_stop_and_save.
Dead(w) == wk[w].pc = "dead"

\* Worker w is started and has not ended.
Live(w) == wk[w].pc \notin {"idle", "done", "dead"}

WorkerCanStep(w) ==
    \/ ENABLED CounterAcquire(w)
    \/ ENABLED CounterRead(w)
    \/ ENABLED CounterCheck(w)
    \/ ENABLED CounterRelease(w)
    \/ ENABLED ProbeStep(w)

\* C19: in a scan with threads > 0 an error raised in a worker by a getter or
\* by save_stop that the probe does not handle ends that worker only: the
\* call of find_all_stops never ends with it, the dead worker does not hold
\* the cursor's lock, every other started worker can still take a step or
\* waits for the lock held by a worker that can, and a worker ends normally
\* only when every ID of the range has been handed out.
C19_WorkerErrorStaysInWorker ==
    (ScanCalled /\ scan.threads > 0 /\ ~PreconditionError) =>
        /\ scan.exc = "none"
        /\ scan.status \in {"starting", "returned"}
        /\ \A w \in 1..MaxThreads :
             /\ Dead(w) =>
                  /\ lock # w
                  /\ wk[w].last.op = "getter" =>
                       wk[w].last.exc \notin {"StopGetterUnavailable", "StopNotFound", "StopNotExist"}
                  /\ wk[w].last.op = "save" => wk[w].last.exc # "StopSetterUnavailable"
                  /\ wk[w].last.op # "none"
             /\ Live(w) =>
                  \/ WorkerCanStep(w)
                  \/ /\ wk[w].pc = "acquire"
                     /\ lock \in 1..MaxThreads
                     /\ Live(lock)
                     /\ WorkerCanStep(lock)
             /\ wk[w].pc = "done" => Len(claims) = ScanRangeSize

\* Worker 1 died on the first ID; worker 2 went on, was handed every other ID
\* and ended normally.
C19_Witness ==
    /\ scan.status = "returned"
    /\ scan.threads = 2
    /\ scan.start = 1
    /\ scan.end = 3
    /\ Dead(1)
    /\ wk[1].last = [op |-> "getter", g |-> 1, id |-> 1, exc |-> "TypeError"]
    /\ wk[2].pc = "done"
    /\ claims = <<[w |-> 1, id |-> 1], [w |-> 2, id |-> 2], [w |-> 2, id |-> 3]>>
    /\ tried[3] = <<1>>

---------------------------------------------------------------------------
(* Claims about the registry *)

\* C20: the registry has an add operation for each of the four roles
\* Stop-Getter, Stop-Setter, Stop-Deleter and Bus-Getter, and each appends the
\* provider at the end of its role's list: a step that changes a list appends
\* one provider to it, and a call of add_stop_deleter returns with its
\* provider at the end of the Stop-Deleter list (where a later delete_stop
\* finds it).
C20_EveryRoleHasAdd ==
    [][/\ stop_getters' # stop_getters =>
            \E f \in Callables : stop_getters' = Append(stop_getters, f)
       /\ stop_setters' # stop_setters =>
            \E f \in StopSetterCallables : stop_setters' = Append(stop_setters, f)
       /\ bus_getters' # bus_getters =>
            \E f \in BusGetterCallables : bus_getters' = Append(bus_getters, f)
       /\ call'.op = "add_stop_deleter" =>
            /\ call'.result.kind = "returned"
            /\ stop_deleters' = Append(stop_deleters, call'.args.f)]_vars

RegisteredOnline(r) == r.online

\* The callables of a sequence of registrations.
CallablesOf(regs) == [i \in 1..Len(regs) |-> regs[i].f]

\* C21: get_stop_getters(online=False) returns every registered Stop-Getter
\* in registration order, and get_stop_getters(online=True) returns, in
\* registration order, exactly those that were registered with online=True,
\* whatever kind of callable they are.
C21_OnlineSelectionFollowsRegistration ==
    /\ get_stop_getters(FALSE) = CallablesOf(registered)
    /\ get_stop_getters(TRUE) = CallablesOf(SelectSeq(registered, RegisteredOnline))

\* s is t, or t with providers removed from its end.
IsPrefix(s, t) ==
    /\ Len(s) <= Len(t)
    /\ \A i \in 1..Len(s) : t[i] = s[i]

ProviderLists == <<stop_getters, stop_setters, stop_deleters, bus_getters>>

\* C22: every step leaves each provider list as it was or with one provider
\* appended at its end: nothing is removed, reordered or replaced; and a step
\* that lengthens a list is an add call, not a resolver call nor a step of a
\* scan (it leaves the resolver call and the scan as they were).
C22_ListsOnlyGrowByAdd ==
    [][/\ IsPrefix(stop_getters, stop_getters')
       /\ IsPrefix(stop_setters, stop_setters')
       /\ IsPrefix(stop_deleters, stop_deleters')
       /\ IsPrefix(bus_getters, bus_getters')
       /\ ProviderLists' # ProviderLists =>
            /\ call' = call
            /\ scanner' = scanner
            /\ Len(stop_getters') + Len(stop_setters') + Len(stop_deleters') + Len(bus_getters')
               = Len(stop_getters) + Len(stop_setters) + Len(stop_deleters) + Len(bus_getters) + 1
      ]_vars

\* A scan has run to its end over a registry of two getters, two different
\* setters, two deleters and a bus getter.
C22_Witness ==
    /\ scan.status = "returned"
    /\ scan.threads = 1
    /\ wk[1].pc = "done"
    /\ stop_getters = <<"db_find_stop", "getter_vitrasa">>
    /\ stop_setters = <<"cache_save_stop", "db_save_stop">>
    /\ Len(stop_deleters) = 2
    /\ Len(bus_getters) = 1
    /\ saved[2] # <<>>


----------------------------------------------------------------------------
(* Stop objects (src/pybuses/assets.py) and stored documents
   (src/pybuses/mongodb.py) *)

MaxNameLen == 2

\* Python values given as stopid, lat and lon: None, an int, a float (in
\* tenths) or a text (a sequence of characters).
PyNone == [t |-> "NoneType", n |-> 0, s |-> <<>>]
PyInt(n) == [t |-> "int", n |-> n, s |-> <<>>]
PyFloat(n) == [t |-> "float", n |-> n, s |-> <<>>]
PyStr(s) == [t |-> "str", n |-> 0, s |-> s]

\* The texts that read as a number, with the number in tenths.
NumericText == (<<"8">> :> 80) @@ (<<"4", "2", ".", "5">> :> 425)

\* int(x): an int is itself, a float is truncated, a text is parsed and must
\* be a whole number without a decimal point; None is a TypeError.
IntRaises(x) ==
    CASE x.t = "int" -> "none"
      [] x.t = "float" -> "none"
      [] x.t = "str" ->
            IF x.s \in DOMAIN NumericText /\ NumericText[x.s] % 10 = 0
                /\ \A i \in 1..Len(x.s) : x.s[i] # "."
            THEN "none" ELSE "ValueError"
      [] OTHER -> "TypeError"

IntCast(x) ==
    CASE x.t = "int" -> x.n
      [] x.t = "float" -> IF x.n >= 0 THEN x.n \div 10 ELSE -((-x.n) \div 10)
      [] OTHER -> NumericText[x.s] \div 10

\* float(x): an int or float is that number, a text is parsed; None is a
\* TypeError.
FloatRaises(x) ==
    CASE x.t = "int" -> "none"
      [] x.t = "float" -> "none"
      [] x.t = "str" -> IF x.s \in DOMAIN NumericText THEN "none" ELSE "ValueError"
      [] OTHER -> "TypeError"

FloatCast(x) ==
    CASE x.t = "int" -> PyFloat(10 * x.n)
      [] x.t = "float" -> x
      [] OTHER -> PyFloat(NumericText[x.s])

\* str.strip(): leading and trailing blanks removed.
RECURSIVE LStrip(_)
LStrip(s) == IF s # <<>> /\ Head(s) = " " THEN LStrip(Tail(s)) ELSE s

RECURSIVE RStrip(_)
RStrip(s) ==
    IF s # <<>> /\ s[Len(s)] = " " THEN RStrip(SubSeq(s, 1, Len(s) - 1)) ELSE s

Strip(s) == RStrip(LStrip(s))

\* Mutant: lat and lon are each cast, or left None, on their own.
StopInitUnpaired(stopid, name, lat, lon) ==
    IF IntRaises(stopid) # "none" THEN Raised(IntRaises(stopid))
    ELSE IF lat # PyNone /\ FloatRaises(lat) # "none" THEN Raised(FloatRaises(lat))
    ELSE IF lon # PyNone /\ FloatRaises(lon) # "none" THEN Raised(FloatRaises(lon))
    ELSE Returned([stopid |-> IntCast(stopid), name |-> Strip(name),
                   lat |-> IF lat = PyNone THEN PyNone ELSE FloatCast(lat),
                   lon |-> IF lon = PyNone THEN PyNone ELSE FloatCast(lon)])

\* Stop.__init__: stopid is cast, the name stripped; lat and lon are both
\* None when either is None and both cast to float otherwise. The `other`
\* dictionary stays at its default and is left out.
StopInit(stopid, name, lat, lon) ==
    IF IntRaises(stopid) # "none" THEN Raised(IntRaises(stopid))
    ELSE IF lat = PyNone \/ lon = PyNone
    THEN Returned([stopid |-> IntCast(stopid), name |-> Strip(name),
                   lat |-> PyNone, lon |-> PyNone])
    ELSE IF FloatRaises(lat) # "none" THEN Raised(FloatRaises(lat))
    ELSE IF FloatRaises(lon) # "none" THEN Raised(FloatRaises(lon))
    ELSE Returned([stopid |-> IntCast(stopid), name |-> Strip(name),
                   lat |-> FloatCast(lat), lon |-> FloatCast(lon)])

\* Stop.has_location: not (self.lat, self.lon) == (None, None).
has_location(stop) == ~(<<stop.lat, stop.lon>> = <<PyNone, PyNone>>)

\* dict_to_stop: the Stop is built from "_id" and "name" alone, then lat and
\* lon are assigned, each on its own, from the keys the document has.
DictToStopValue(dictionary) ==
    LET ret == StopInit(dictionary["_id"], dictionary["name"], PyNone, PyNone).value
        withLat == IF "lat" \in DOMAIN dictionary
                   THEN [ret EXCEPT !.lat = dictionary["lat"]] ELSE ret
    IN  IF "lon" \in DOMAIN dictionary
        THEN [withLat EXCEPT !.lon = dictionary["lon"]] ELSE withLat

dict_to_stop_result(dictionary) ==
    LET made == StopInit(dictionary["_id"], dictionary["name"], PyNone, PyNone)
    IN  IF made.kind = "raised" THEN made ELSE Returned(DictToStopValue(dictionary))

\* Inputs: names of blanks and letters, ids and coordinates of each type.
NameTexts == SeqsUpTo({" ", "A"}, MaxNameLen)
StopIdInputs == {PyInt(1), PyInt(2), PyStr(<<"8">>), PyNone}
CoordInputs == {PyNone, PyInt(42), PyFloat(-87), PyStr(<<"4", "2", ".", "5">>),
                PyStr(<<"A">>)}

\* Stored documents: "_id" and "name" always, "lat" and "lon" each present or
\* not, a present one holding a float or null.
StoredCoords == {PyNone, PyFloat(425), PyFloat(-87)}

Document(id, name, lat, lon) ==
    [k \in {"_id", "name"} \cup (IF lat = <<>> THEN {} ELSE {"lat"})
                           \cup (IF lon = <<>> THEN {} ELSE {"lon"}) |->
        CASE k = "_id" -> id
          [] k = "name" -> name
          [] k = "lat" -> lat[1]
          [] OTHER -> lon[1]]

OptionalCoords == {<<>>} \cup {<<c>> : c \in StoredCoords}

\* Stop(stopid, name, lat, lon)
NewStop(stopid, name, lat, lon) ==
    /\ call.op = "none"
    /\ call' = [NoCall EXCEPT !.op = "Stop",
                              !.args = <<stopid, name, lat, lon>>,
                              !.result = StopInit(stopid, name, lat, lon)]
    /\ UNCHANGED <<stop_getters, stop_setters, stop_deleters, bus_getters,
                   use_all_stop_setters, use_all_stop_deleters, online_attr,
                   registered, scanner>>

\* dict_to_stop(dictionary)
dict_to_stop(dictionary) ==
    /\ call.op = "none"
    /\ call' = [NoCall EXCEPT !.op = "dict_to_stop",
                              !.args = <<dictionary>>,
                              !.result = dict_to_stop_result(dictionary)]
    /\ UNCHANGED <<stop_getters, stop_setters, stop_deleters, bus_getters,
                   use_all_stop_setters, use_all_stop_deleters, online_attr,
                   registered, scanner>>

NextStop ==
    \/ \E stopid \in StopIdInputs, name \in NameTexts,
          lat \in CoordInputs, lon \in CoordInputs :
            NewStop(stopid, name, lat, lon)
    \/ \E dictionary \in {Document(id, name, lat, lon) :
                               id \in {PyInt(1), PyInt(2)}, name \in NameTexts,
                               lat \in OptionalCoords, lon \in OptionalCoords} :
            dict_to_stop(dictionary)

SpecStop == Init /\ [][NextStop]_vars

StopProduced ==
    /\ call.op \in {"Stop", "dict_to_stop"}
    /\ call.result.kind = "returned"

\* C23: every Stop the program produces, by the constructor or by
\* dict_to_stop from a stored document, has has_location() true exactly when
\* both lat and lon are not None; with exactly one of them missing it is
\* false.
C23_HasLocationIffBothSet ==
    StopProduced =>
        (has_location(call.result.value) <=>
            (call.result.value.lat # PyNone /\ call.result.value.lon # PyNone))


ResolverOps == {"find_stop", "save_stop", "delete_stop", "get_buses"}

\* The error each resolver operation takes as "try the next provider".
SkipSignal(op) ==
    CASE op = "find_stop" -> "StopGetterUnavailable"
      [] op = "save_stop" -> "StopSetterUnavailable"
      [] op = "delete_stop" -> "StopDeleterUnavailable"
      [] OTHER -> "BusGetterUnavailable"

\* The i-th invocation of the call raised an error other than the skip signal.
RaisedOtherError(i) ==
    /\ call.beh[call.log[i].pos].kind = "raises"
    /\ call.beh[call.log[i].pos].exc # SkipSignal(call.op)

\* C24: in find_stop, save_stop, delete_stop and get_buses, an error raised
\* by a provider that is not the operation's skip signal ends the operation
\* at once with exactly that error, and no later provider of the list is
\* invoked, also when an earlier setter or deleter had already succeeded.
C24_OtherErrorEndsOperation ==
    call.op \in ResolverOps =>
        \A i \in 1..Len(call.log) :
            RaisedOtherError(i) =>
                /\ i = Len(call.log)
                /\ \A j \in 1..Len(call.log) : call.log[j].pos <= call.log[i].pos
                /\ call.result = Raised(call.beh[call.log[i].pos].exc)

C24_Witness ==
    /\ call.op \in {"save_stop", "delete_stop"}
    /\ Len(call.chain) = 2
    /\ Len(call.log) = 2
    /\ call.beh[1] = Returns
    /\ RaisedOtherError(2)
    /\ call.result.kind = "raised"


Registered(list) == {list[i] : i \in 1..Len(list)}

\* Every invocation of the call went to a callable of the list `getters`, in
\* the role `role`, and to none registered as a setter or deleter.
InvokedOnlyFrom(getters, role) ==
    \A i \in 1..Len(call.log) :
        /\ call.log[i].role = role
        /\ call.log[i].f \in Registered(getters)
        /\ call.log[i].f \notin Registered(stop_setters) \cup Registered(stop_deleters)

\* C25: find_stop and get_buses invoke only getters: whatever the outcome, no
\* setter or deleter is invoked during the call and nothing is persisted.
C25_QueriesInvokeOnlyGetters ==
    /\ IsFindStop => InvokedOnlyFrom(stop_getters, "StopGetter")
    /\ IsGetBuses => InvokedOnlyFrom(bus_getters, "BusGetter")
    /\ IsFindStop \/ IsGetBuses => \A id \in DOMAIN saved : saved[id] = <<>>

C25_Witness ==
    /\ IsFindStop
    /\ call.result.kind = "returned"
    /\ Len(call.log) = 2
    /\ stop_setters # <<>>
    /\ stop_deleters # <<>>


\* The position, in the online selection, of the getter whose Stop was handed
\* to save_stop first for the ID.
FirstSucceeded(id) == saved[id][1].stop.name

\* C26: once an online getter has returned a Stop for an ID and the Stop has
\* been handed to save_stop, no later online getter is invoked for the ID,
\* and every Stop persisted for the ID is the one of the first getter that
\* succeeded.
C26_ProbeEndsAtFirstSuccess ==
    ScanCalled =>
        \A id \in ScanIds :
            saved[id] # <<>> =>
                /\ \A k \in 1..Len(tried[id]) : tried[id][k] <= FirstSucceeded(id)
                /\ \A k \in 1..Len(saved[id]) : saved[id][k].stop.name = FirstSucceeded(id)


\* An answer after which the probe moves to the next getter of the same ID.
SkipAnswer(exc) ==
    \/ exc = "StopGetterUnavailable"
    \/ exc \in {"StopNotFound", "StopNotExist"} /\ scan.use_all_stop_getters

\* In this step a getter invoked by thread w ends with such an answer.
SkipStep(w) ==
    /\ wk[w].pc = "in_getter"
    /\ wk'[w].last.op = "getter"
    /\ SkipAnswer(wk'[w].last.exc)

\* In this step thread w finds the list of online getters exhausted.
ExhaustedStep(w) ==
    /\ wk[w].pc = "getter"
    /\ wk[w].gi > Len(scan.getters)
    /\ wk'[w] # wk[w]

\* C27: a getter that raises StopGetterUnavailable for an ID (or not-found
\* with use_all_stop_getters true) saves nothing and raises nothing: the
\* thread moves to the next online getter of the same ID; when the getters
\* are exhausted the thread leaves the probe, still with nothing saved and no
\* error, and the sequential loop hands out the next ID of the range.
C27_UnresolvableIdDroppedSilently ==
    [][\A w \in Threads :
        /\ SkipStep(w) =>
             /\ saved' = saved
             /\ scan' = scan
             /\ wk'[w].pc = "getter"
             /\ wk'[w].stopid = wk[w].stopid
             /\ wk'[w].gi = wk[w].gi + 1
        /\ ExhaustedStep(w) =>
             /\ saved' = saved
             /\ scan' = scan
             /\ tried' = tried
             /\ wk'[w].pc = (IF w = 0 THEN "loop" ELSE "acquire")
        /\ (w = 0 /\ wk[0].pc = "loop" /\ wk'[0] # wk[0] /\ scan.it <= scan.end) =>
             /\ scan'.status = "running"
             /\ wk'[0].pc = "getter"
             /\ wk'[0].stopid = scan.it
             /\ wk'[0].gi = 1
      ]_vars

C27_Witness ==
    /\ scan.status = "running"
    /\ Len(scan.getters) = 2
    /\ scan.end = 2
    /\ wk[0].pc = "getter"
    /\ wk[0].stopid = 2
    /\ wk[0].gi = 1
    /\ tried[1] = <<1, 2>>
    /\ saved[1] = <<>>
    /\ claims = <<[w |-> 0, id |-> 1], [w |-> 0, id |-> 2]>>
    /\ scan.use_all_stop_getters


\* The getters registered with online=True, in registration order.
OnlineRegistered == CallablesOf(SelectSeq(registered, RegisteredOnline))

\* C28: find_all_stops consults the getters flagged online and no other, for
\* each ID in their registration order; find_stop with online=False tries
\* all registered getters, online or not, in registration order.
C28_ScannerConsultsOnlineGetters ==
    /\ ScanCalled =>
         /\ scan.getters = OnlineRegistered
         /\ \A id \in ScanIds :
              /\ InvokedInOrder(id)
              /\ \A k \in 1..Len(tried[id]) : tried[id][k] \in 1..Len(OnlineRegistered)
    /\ (IsFindStop /\ ~call.args.online) =>
         /\ call.chain = CallablesOf(registered)
         /\ \A i \in 1..Len(call.log) :
              call.log[i].pos = i /\ call.log[i].f = registered[i].f


\* Worker w is inside Counter.get between lock.acquire() and lock.release().
InCritical(w) == wk[w].pc \in {"read", "check", "release_raise", "release_return"}

Max(a, b) == IF a >= b THEN a ELSE b

CursorInBounds ==
    /\ counter.value >= scan.start
    /\ counter.value <= Max(scan.start, scan.end + 1)
    /\ counter.limit = scan.end

LockHeldByTheOneInside ==
    /\ \A v, w \in 1..MaxThreads : (InCritical(v) /\ InCritical(w)) => v = w
    /\ \A w \in 1..MaxThreads : InCritical(w) <=> lock = w
    /\ (\A w \in 1..MaxThreads : ~InCritical(w)) => lock = 0

\* C29: in a scan with threads > 0 the cursor is at least start, never
\* decreases and never exceeds max(start, end + 1); at most one worker is
\* between the acquire and the release of Counter.get, and the lock is free
\* whenever no worker is there: it is released on the path that returns an
\* ID and on the path that reports exhaustion.
C29_CursorAndLockDiscipline ==
    [][/\ ThreadedScanRunning => (CursorInBounds /\ LockHeldByTheOneInside)
       /\ ThreadedScanRunning' => (CursorInBounds' /\ LockHeldByTheOneInside')
       /\ ThreadedScanRunning => counter'.value >= counter.value
       /\ \A w \in 1..MaxThreads :
            (wk[w].pc \in {"release_raise", "release_return"} /\ wk'[w] # wk[w]) =>
                lock' = 0
      ]_vars

C29_Witness ==
    /\ ThreadedScanRunning
    /\ scan.threads = 2
    /\ scan.end = 2
    /\ counter.value = scan.end + 1
    /\ wk[1].pc = "done"
    /\ wk[2].pc = "in_getter"
    /\ lock = 0
    /\ Len(claims) = 2


\* Worker w has been handed an ID by the cursor.
HasClaim(w) == \E i \in 1..Len(claims) : claims[i].w = w

\* Worker w is in, or died in, the probe of an ID.
Probing(w) == wk[w].pc \in {"getter", "in_getter", "in_save", "dead"}

\* C30: find_all_stops with threads = n > 0 starts exactly n workers, also
\* when n exceeds the number of IDs of the range; a worker whose first value
\* from the cursor exceeds end ends without probing anything; with
\* start > end nothing is probed.
C30_StartsExactlyNWorkers ==
    (ScanCalled /\ scan.threads > 0 /\ ~PreconditionError) =>
        /\ scan.started <= scan.threads
        /\ scan.status = "returned" => scan.started = scan.threads
        /\ \A w \in 1..MaxThreads : wk[w].pc # "idle" <=> w <= scan.started
        /\ \A w \in 1..MaxThreads :
             /\ Probing(w) => HasClaim(w)
             /\ wk[w].pc = "release_raise" =>
                  /\ wk[w].stopid > scan.end
                  /\ ENABLED CounterRelease(w)
             /\ (wk[w].pc = "done" /\ ~HasClaim(w)) => counter.value > scan.end
        /\ \A id \in ScanIds :
             tried[id] # <<>> => \E i \in 1..Len(claims) : claims[i].id = id
        /\ scan.start > scan.end =>
             /\ claims = <<>>
             /\ \A id \in ScanIds : tried[id] = <<>> /\ saved[id] = <<>>

C30_Witness ==
    /\ scan.status = "returned"
    /\ scan.threads = 2
    /\ scan.start = 2
    /\ scan.end = 2
    /\ scan.started = 2
    /\ wk[1].pc = "done"
    /\ ~HasClaim(1)
    /\ wk[2].pc = "done"
    /\ claims = <<[w |-> 2, id |-> 2]>>
    /\ tried[2] = <<1>>


----------------------------------------------------------------------------
(* Scans with two worker threads, and the calling thread's sequential scan,
   with the scheduling of the threads *)

\* One step of worker thread w: a step of Counter.get or of the probe.
WorkerStep(w) ==
    \/ CounterAcquire(w)
    \/ CounterRead(w)
    \/ CounterCheck(w)
    \/ CounterRelease(w)
    \/ ProbeStep(w)

NextWorkers ==
    \/ RegisterForScan({"getter_vitrasa"}, 1)
    \/ \E end \in 0..2, threads \in {0, 2} :
         find_all_stops(end, 1, threads, TRUE, FALSE, "None")
    \/ ForNext
    \/ ProbeStep(0)
    \/ ThreadStart
    \/ FindAllStopsReturn
    \/ \E w \in 1..2 : WorkerStep(w)

SpecWorkers == Init /\ [][NextWorkers]_vars

\* The IDs handed to worker w, in the order it got them.
ClaimsOf(w) == SelectSeq(claims, LAMBDA c : c.w = w)

\* The probe of the ID that worker w was handed is over.
ProbeOver(w, id) ==
    \/ wk[w].stopid # id
    \/ wk[w].pc \in {"acquire", "read", "done", "dead"}

\* C31: in a threaded scan the IDs probed by any single worker are strictly
\* increasing under every interleaving, each probe beginning only after the
\* worker's previous one is over; over all workers the order of the probes
\* need not be monotonic.
C31_PerWorkerIncreasing ==
    ThreadedScanRunning =>
        \A w \in 1..MaxThreads :
            /\ \A i, j \in 1..Len(ClaimsOf(w)) :
                 i < j => ClaimsOf(w)[i].id < ClaimsOf(w)[j].id
            /\ \A i \in 1..Len(ClaimsOf(w)) :
                 i < Len(ClaimsOf(w)) => tried[ClaimsOf(w)[i].id] # <<>>
            /\ Probing(w) => wk[w].stopid = ClaimsOf(w)[Len(ClaimsOf(w))].id

\* The probe of ID 2 is over while the probe of ID 1 is still going on.
C31_Witness ==
    /\ ThreadedScanRunning
    /\ claims = <<[w |-> 1, id |-> 1], [w |-> 2, id |-> 2]>>
    /\ wk[1].pc = "in_getter"
    /\ wk[1].stopid = 1
    /\ tried[2] = <<1>>
    /\ wk[2].pc = "done"


\* Worker w is inside a provider: a getter, or save_stop and its setters.
InProvider(w) == wk[w].pc \in {"in_getter", "in_save"}

\* C32: the cursor lock is never held by a worker that is inside a provider,
\* so nothing keeps two workers from being inside the same getter or the
\* same setter at the same time, for different IDs.
C32_NoLockAroundProviders ==
    ThreadedScanRunning =>
        \A w \in 1..MaxThreads :
            InProvider(w) => lock # w

C32_Witness ==
    /\ ThreadedScanRunning
    /\ wk[1].pc = "in_save"
    /\ wk[2].pc = "in_save"
    /\ wk[1].stopid # wk[2].stopid
    /\ Len(scan.getters) = 1
    /\ Len(stop_setters) = 1
    /\ lock = 0


\* The calling thread is scheduled: it goes on registering nothing forever
\* only by choice, but once inside find_all_stops it runs to its end.
CallerScheduled ==
    /\ WF_vars(ForNext)
    /\ WF_vars(ProbeStep(0))
    /\ WF_vars(ThreadStart)
    /\ WF_vars(FindAllStopsReturn)

\* The steps of worker w that are the core's own code: Counter.get and the
\* loop over the getters.  A thread that can run is eventually run.
OwnStep(w) ==
    \/ CounterAcquire(w)
    \/ CounterRead(w)
    \/ CounterCheck(w)
    \/ CounterRelease(w)
    \/ InvokeGetter(w)

\* Worker 1's provider calls may never come back (no fairness on
\* GetterOutcome(1) and SaveOutcome(1)); worker 2's always do.
HangWorkers ==
    /\ SpecWorkers
    /\ CallerScheduled
    /\ WF_vars(OwnStep(1))
    /\ WF_vars(WorkerStep(2))

Ended(w) == wk[w].pc \in {"done", "dead"}

\* Every ID of the range has been handed out.
AllHandedOut == Len(claims) = ScanRangeSize

\* C33: a provider call that never returns blocks only the worker that made
\* it: whatever worker 1 does inside its getter or setter, worker 2 ends, and
\* when it ends by finding the cursor exhausted every ID of the range has
\* been handed out and every ID handed to worker 2 has been probed.
C33_HangBlocksOnlyItsWorker ==
    /\ (scan.status = "starting" /\ scan.threads = 2) ~> Ended(2)
    /\ [](wk[2].pc = "done" =>
            /\ AllHandedOut
            /\ \A i \in 1..Len(claims) :
                 claims[i].w = 2 => tried[claims[i].id] # <<>>)

C33_Witness ==
    /\ scan.status = "returned"
    /\ scan.threads = 2
    /\ scan.end = 2
    /\ wk[1].pc = "in_getter"
    /\ wk[1].stopid = 1
    /\ wk[2].pc = "done"
    /\ claims = <<[w |-> 1, id |-> 1], [w |-> 2, id |-> 2]>>
    /\ saved[2] # <<>>


\* Every thread that can run is eventually run, and every provider call made
\* comes back, with a result or an exception.
FairWorkers ==
    /\ SpecWorkers
    /\ CallerScheduled
    /\ \A w \in 1..2 : WF_vars(WorkerStep(w))

AllProbed == \A id \in scan.start..scan.end : tried[id] # <<>>

\* C34: with every provider call coming back, every worker of a threaded scan
\* ends, and when all of them ended on the exhausted cursor (none was ended
\* by an exception the probe does not handle) the cursor is end + 1 for
\* start <= end and every ID of [start, end] has been probed; the sequential
\* scan ends too, and when it returns every ID of the range has been probed.
C34_ScanTerminates ==
    /\ scan.status = "starting" ~> (Ended(1) /\ Ended(2))
    /\ scan.status = "running" ~> scan.status \in {"returned", "raised"}
    /\ [](/\ (ThreadedScanRunning /\ wk[1].pc = "done" /\ wk[2].pc = "done") =>
               /\ AllProbed
               /\ scan.start <= scan.end => counter.value = scan.end + 1
          /\ (scan.threads <= 0 /\ scan.status = "returned") =>
               /\ AllProbed
               /\ scan.start <= scan.end => scan.it = scan.end + 1)

C34_Witness ==
    /\ scan.status = "returned"
    /\ scan.threads = 2
    /\ scan.end = 2
    /\ wk[1].pc = "done"
    /\ wk[2].pc = "done"
    /\ counter.value = 3
    /\ tried[1] = <<1>>
    /\ tried[2] = <<1>>


StopConstructed == call.op = "Stop" /\ call.result.kind = "returned"

\* C35: a Stop constructed with exactly one of lat and lon given has both
\* None, a Stop constructed with both given has both set, to floats; a
\* freshly constructed Stop never has one without the other.
C35_ConstructorKeepsLatLonPaired ==
    StopConstructed =>
        LET lat == call.args[3]
            lon == call.args[4]
            stop == call.result.value
        IN /\ (lat = PyNone \/ lon = PyNone) => (stop.lat = PyNone /\ stop.lon = PyNone)
           /\ (lat # PyNone /\ lon # PyNone) =>
                (stop.lat = FloatCast(lat) /\ stop.lon = FloatCast(lon)
                 /\ stop.lat.t = "float" /\ stop.lon.t = "float")
           /\ stop.lat = PyNone <=> stop.lon = PyNone

C35_Witness ==
    /\ StopConstructed
    /\ call.args[3] = PyInt(42)
    /\ call.args[4] = PyNone
    /\ call.result.value.lat = PyNone


----------------------------------------------------------------------------
(* save_stop called directly and by a sequential scan, every argument varied *)

NextHandThrough ==
    \/ scan.status = "none" /\ Len(stop_getters) < 1 /\ add_stop_getter("getter_vitrasa", TRUE)
    \/ \E f \in StopSetterCallables :
         scan.status = "none" /\ Len(stop_setters) < 2 /\ add_stop_setter(f)
    \/ \E stopid \in StopIds, update \in BOOLEAN, use_all \in OptionalBool :
         scan.status = "none" /\ save_stop(StopOf(0, stopid), update, use_all)
    \/ \E update \in BOOLEAN, use_all \in OptionalBool :
         find_all_stops(1, 1, 0, update, FALSE, use_all)
    \/ ForNext
    \/ ProbeStep(0)

SpecHandThrough == InitSave /\ [][NextHandThrough]_vars

\* C36: every setter that save_stop invokes receives exactly the Stop and the
\* update flag given to save_stop; whether the loop goes on after the first
\* success follows the per-call argument when one is given and the
\* instance's default only when none is; every save made by find_all_stops
\* is called with the found Stop and the update and use_all_stop_setters
\* values given to find_all_stops.
C36_ParametersHandedThrough ==
    /\ IsSaveStop =>
         /\ \A i \in 1..Len(call.log) :
              /\ call.log[i].role = "StopSetter"
              /\ call.log[i].arg = [stop |-> call.args.stop, update |-> call.args.update]
         /\ \A k \in 1..(Len(call.chain) - 1) :
              (call.beh[k] = Returns /\ AllEarlierUnavailable(k, "StopSetterUnavailable")) =>
                  (Len(call.log) > k <=>
                      (IF call.args.use_all_stop_setters = "None"
                       THEN use_all_stop_setters
                       ELSE call.args.use_all_stop_setters = "True"))
    /\ ScanCalled =>
         \A id \in ScanIds : \A k \in 1..Len(saved[id]) :
             /\ saved[id][k].stop.stopid = id
             /\ saved[id][k].update = scan.update
             /\ saved[id][k].use_all_stop_setters = scan.use_all_stop_setters

C36_Witness ==
    /\ IsSaveStop
    /\ use_all_stop_setters
    /\ call.args.use_all_stop_setters = "False"
    /\ ~call.args.update
    /\ Len(call.chain) = 2
    /\ call.beh[1] = Returns
    /\ Len(call.log) = 1


----------------------------------------------------------------------------
(* The MongoDB providers (src/pybuses/mongodb.py) *)

\* The database as a call finds it: reachable, no client on the instance
\* (check_client(True) raises MongoDBUnavailable), or a client whose
\* operation raises a PyMongoError.
MongoStates == {"up", "no_client", "down"}

MongoRaises(status) ==
    CASE status = "no_client" -> "MongoDBUnavailable"
      [] status = "down" -> "PyMongoError"
      [] OTHER -> "none"

\* MongoDB.delete_stop: except PyMongoError: raise StopSetterUnavailable(...)
MongoDeleteStop(status) ==
    IF MongoRaises(status) = "none" THEN Returns
    ELSE IF Catches("PyMongoError", MongoRaises(status))
    THEN Raises(RaiseNamed("StopSetterUnavailable"))
    ELSE Raises(MongoRaises(status))

\* PyBuses(stop_deleters=[...]).delete_stop(stopid) with db.delete_stop in
\* the list: its outcome is the one MongoDB.delete_stop has for the state of
\* the database; the other deleter succeeds or is unavailable.
DeleteStopOverMongo(stopid) ==
    /\ call.op = "none"
    /\ LET deleters == get_stop_deleters
       IN \E status \in MongoStates,
             others \in SeqsOfLen({Returns, Raises("StopDeleterUnavailable")}, Len(deleters)) :
            LET beh == [i \in 1..Len(deleters) |->
                            IF deleters[i] = "db_delete_stop"
                            THEN MongoDeleteStop(status) ELSE others[i]]
                r == DeleteStopRun(deleters, beh, stopid)
            IN call' = [op |-> "delete_stop",
                        args |-> [stopid |-> stopid, mongo |-> status],
                        chain |-> deleters, beh |-> beh,
                        log |-> r.log, result |-> r.result]
    /\ UNCHANGED <<registry, scanner>>

\* The attributes a Stop object has: "self.id" is commented out in __init__.
StopAttributes == {"stopid", "name", "other", "lat", "lon"}

\* The Stops handed to the setter: made by the constructor, so with lat and
\* lon paired.
MongoStops ==
    {[stopid |-> id, name |-> n, lat |-> c[1], lon |-> c[2]] :
        id \in StopIds, n \in {<<"A">>, <<"B">>},
        c \in {<<PyNone, PyNone>>, <<PyFloat(425), PyFloat(-87)>>}}

\* if stop.has_location(): d["lat"] = stop.lat; d["lon"] = stop.lon
LocationKeys(stop) ==
    IF has_location(stop) THEN [lat |-> <<stop.lat>>, lon |-> <<stop.lon>>]
    ELSE [lat |-> <<>>, lon |-> <<>>]

\* A write sent to the collection.
MongoWrite(op, id, stop, now, first) ==
    [op |-> op, id |-> id, name |-> stop.name,
     saved |-> IF first THEN <<now>> ELSE <<>>, updated |-> now,
     lat |-> LocationKeys(stop).lat, lon |-> LocationKeys(stop).lon]

\* MongoDB.save_stop(stop, update): the writes made and how the call ends.
\* Reading an attribute the Stop does not have raises AttributeError, which
\* "except PyMongoError" does not catch.
MongoSaveStopRun(stop, update, status, exists, now) ==
    IF MongoRaises(status) # "none"
    THEN [log |-> <<>>,
          result |-> IF Catches("PyMongoError", MongoRaises(status))
                     THEN Raised(RaiseNamed("StopSetterUnavailable"))
                     ELSE Raised(MongoRaises(status))]
    ELSE IF ~exists
    THEN IF "id" \notin StopAttributes
         THEN [log |-> <<>>,
               result |-> IF Catches("PyMongoError", "AttributeError")
                          THEN Raised(RaiseNamed("StopSetterUnavailable"))
                          ELSE Raised("AttributeError")]
         ELSE [log |-> <<MongoWrite("insert_one", stop.stopid, stop, now, TRUE)>>,
               result |-> Returned(None)]
    ELSE IF ~update
    THEN [log |-> <<>>, result |-> Returned(None)]
    ELSE [log |-> <<MongoWrite("update_one", stop.stopid, stop, now, FALSE)>>,
          result |-> Returned(None)]

\* db.save_stop(stop, update=update)
MongoSaveStop(stop, update) ==
    /\ call.op = "none"
    /\ \E status \in MongoStates, exists \in BOOLEAN :
         LET r == MongoSaveStopRun(stop, update, status, exists, 1)
         IN call' = [NoCall EXCEPT !.op = "MongoDB.save_stop",
                                   !.args = [stop |-> stop, update |-> update,
                                             mongo |-> status, exists |-> exists],
                                   !.log = r.log,
                                   !.result = r.result]
    /\ UNCHANGED <<registry, scanner>>

NextMongo ==
    \/ \E stopid \in StopIds : DeleteStopOverMongo(stopid)
    \/ \E stop \in MongoStops, update \in BOOLEAN : MongoSaveStop(stop, update)

SpecMongo == InitDelete /\ [][NextMongo]_vars

\* C37: when its store is unavailable the MongoDB Stop-Deleter signals
\* StopDeleterUnavailable, so that delete_stop skips it and goes on to the
\* next deleter of the list.
C37_MongoDeleterHonoursContract ==
    (IsDeleteStop /\ call.args.mongo # "up") =>
        \A i \in 1..Len(call.log) :
            call.log[i].f = "db_delete_stop" =>
                /\ call.beh[call.log[i].pos] = Raises("StopDeleterUnavailable")
                /\ call.log[i].pos < Len(call.chain) => Len(call.log) > i


IsMongoSave == call.op = "MongoDB.save_stop"

\* The one write of the call, as the claim has it for the Stop given.
WritesStop(op) ==
    /\ Len(call.log) = 1
    /\ call.log[1].op = op
    /\ call.log[1].id = call.args.stop.stopid
    /\ call.log[1].name = call.args.stop.name
    /\ has_location(call.args.stop) =>
         /\ call.log[1].lat = <<call.args.stop.lat>>
         /\ call.log[1].lon = <<call.args.stop.lon>>

\* C38: the MongoDB Stop-Setter inserts a Stop whose ID is absent from the
\* store and completes without error; for an ID that is present it
\* overwrites the stored fields when update is true and writes nothing when
\* update is false; any failure is signalled as StopSetterUnavailable.
C38_MongoSetterUpserts ==
    IsMongoSave =>
        /\ (call.args.mongo = "up" /\ ~call.args.exists) =>
             (call.result = Returned(None) /\ WritesStop("insert_one"))
        /\ (call.args.mongo = "up" /\ call.args.exists /\ call.args.update) =>
             (call.result = Returned(None) /\ WritesStop("update_one"))
        /\ (call.args.mongo = "up" /\ call.args.exists /\ ~call.args.update) =>
             (call.result = Returned(None) /\ call.log = <<>>)
        /\ call.result.kind = "raised" =>
             (call.result.exc = "StopSetterUnavailable" /\ call.log = <<>>)


\* The registration at position i of the getter list is among those that
\* get_stop_getters(online=True) returns.
ReturnedAsOnline(i) == IsOnline(stop_getters[i])

\* C39: once a getter has been registered, no later add_stop_getter call,
\* also one that registers the same callable again with another online
\* value, changes whether the earlier registration is returned by
\* get_stop_getters(online=True).
C39_OnlineFixedAtRegistration ==
    [][\A i \in 1..Len(stop_getters) : ReturnedAsOnline(i)' <=> ReturnedAsOnline(i)]_vars

====
